---- MODULE Spec2Model ----
(***************************************************************************)
(* FlamApp collaborative canvas: the server's Stroke Timeline Store        *)
(* (server/drawing-state.js, class DrawingStateManager) driven by the      *)
(* socket handlers of server/server.js.                                    *)
(*                                                                         *)
(* A stroke id is the string `stroke_${counter}_${Date.now()}`; two ids    *)
(* are equal only if their counters are, so an id is modelled by its       *)
(* counter.  The timestamp field of a stroke is written once by addStroke  *)
(* and never read by the store; it is left out of the stroke record.       *)
(*                                                                         *)
(* The store alone is looked at by three specifications that share the    *)
(* actions and differ in the rooms, users and points the requests name.    *)
(* Spec: one room, two users, one point value (timeline and undo-stack     *)
(* structure).  SpecRooms: two rooms, one user (the store across rooms).   *)
(* SpecPath: one room, one user, varying points (point sequences).         *)
(*                                                                         *)
(* The server as a whole (connections, the RoomManager of server/rooms.js, *)
(* the socket.io rooms, the events each handler sends) is looked at by     *)
(* four more.  SpecServer: one room, every request, well-formed or not.    *)
(* SpecBroadcast: one room, strokes started, undone and redone.            *)
(* SpecTwoRooms: two rooms, requests naming either, connections joining    *)
(* again.  SpecPalette: the registry alone, with more connections than     *)
(* palette colors.                                                         *)
(*                                                                         *)
(* The clients (client/main.js, the first DOMContentLoaded listener, with  *)
(* the CanvasManager of client/canvas.js) talk to the server over one      *)
(* ordered channel per direction and connection.  A client's stroke holds  *)
(* its id, owner and points; type, color, size and timestamp are copied    *)
(* along unchanged and never looked at by the synchronization, and the     *)
(* user list, the cursors and the drawing-status maps of main.js are kept  *)
(* apart from the canvas: they are left out.  SpecSolo: one client and the *)
(* server (id reconciliation).  SpecDuo: two clients in one room, both     *)
(* drawing (what the clients converge to).  SpecViewer: two clients, one   *)
(* drawing, undoing and redoing, one looking on.  SpecCaller: the store    *)
(* with a caller that holds a getFullState result.  SpecEcho: SpecSolo     *)
(* with one point value.  SpecDuoFair: SpecDuo where every request is      *)
(* handled and every event received in the end.  SpecLate: a second client *)
(* that joins while the first client's stroke is open.                     *)
(***************************************************************************)
EXTENDS Integers, Sequences, FiniteSets, TLC

\* ---------------------------------------------------------------- bounds
\* Strokes minted in one run (caps strokeIdCounter).
MaxStrokes == 2
\* Points one stroke may hold (caps the growth of a path).
MaxPath == 2
\* Connections the server accepts in one run.
MaxConnections == 2
\* Users the registry mints where a connection may join more than once (caps
\* userIdCounter).
MaxUsers == 3
\* Undo and redo requests the users make in one run.
MaxClicks == 2

\* ---------------------------------------------------------------- inputs
\* Room keys a request may name.
Rooms == {"r1", "r2"}
\* Durable user ids of the registered connections (RoomManager.getUser).
Users == {"u1", "u2"}
\* Points {x, y} a client may send.
Origin == [x |-> 0, y |-> 0]
Points == {Origin, [x |-> 1, y |-> 1]}
\* type/color/size of a user's stroke-start payloads: u1 holds the pen, u2
\* the eraser (an eraser stroke carries no color).
Brush(userId) ==
    IF userId = "u1"
    THEN [type |-> "draw", color |-> "#000000", size |-> 5]
    ELSE [type |-> "erase", color |-> "null", size |-> 5]
\* Stroke ids a request may name: every id the counter can mint.
StrokeIds == 1..MaxStrokes

VARIABLES
    users,             \* RoomManager.users: Map socketId -> user
    rooms,             \* RoomManager.rooms: Map roomId -> Set of socketIds
    roomColors,        \* RoomManager.roomColors: Map roomId -> Set of colors
    userIdCounter,     \* RoomManager.userIdCounter
    connections,       \* connections accepted so far (numbers the socket ids)
    sockets,           \* open sockets: socket id -> the socket.io rooms it joined
    emitted,           \* the events the last handler sent, in the order sent
    roomStates,        \* Map roomId -> [strokes, undoStacks]; DOMAIN = keys present
    strokeIdCounter,   \* DrawingStateManager.strokeIdCounter
    minted,            \* history: ids returned by addStroke so far
    sent,              \* history: per stored stroke, the points accepted for it
    ended,             \* history: stored ids whose stroke-end was processed
    undone,            \* history: the strokes now undone, in the order of their undo
    last,              \* the request handled last and what it returned
    clients,           \* per connection: the client's CanvasManager and main.js state
    outbox,            \* per connection: the requests sent and not yet handled
    inbox,             \* per connection: the events sent to it and not yet received
    provisional,       \* local stroke ids handed out so far by the clients
    own,               \* history: per local stroke, the id minted for its stroke-start
    closed,            \* history: the local strokes whose endStroke ran
    clicks,            \* undo / redo requests the users made so far
    held,              \* the getFullState result a caller holds (<<>> when none)
    heldAt             \* history: the strokes of that result, as read when returned

vars ==
    <<users, rooms, roomColors, userIdCounter, connections, sockets, emitted,
      roomStates, strokeIdCounter, minted, sent, ended, undone, last,
      clients, outbox, inbox, provisional, own, closed, clicks, held, heldAt>>

\* The state of the clients and of the channels, with its history.
clientVars == <<clients, outbox, inbox, provisional, own, closed, clicks>>

\* The state of a caller of getFullState.
callerVars == <<held, heldAt>>

\* The state of the RoomManager and of socket.io, and the events sent.
serverVars ==
    <<users, rooms, roomColors, userIdCounter, connections, sockets, emitted>>

\* The state of the DrawingStateManager, with its history.
storeVars == <<roomStates, strokeIdCounter, minted, sent, ended, undone>>

\* ------------------------------------------------------------- helpers
\* Array.prototype.find / findIndex over a stroke array: index of the first
\* stroke with this id, 0 when there is none.
FindIndex(strokes, strokeId) ==
    IF \E i \in 1..Len(strokes) : strokes[i].id = strokeId
    THEN CHOOSE i \in 1..Len(strokes) :
             /\ strokes[i].id = strokeId
             /\ \A j \in 1..(i - 1) : strokes[j].id # strokeId
    ELSE 0

\* Array.prototype.splice(i, 1): the array without its i-th element.
Splice(seq, i) ==
    [j \in 1..(Len(seq) - 1) |-> IF j < i THEN seq[j] ELSE seq[j + 1]]

\* Map.prototype.delete
MapDelete(map, key) == [k \in (DOMAIN map) \ {key} |-> map[k]]

\* Map.prototype.set
MapSet(map, key, value) ==
    [k \in (DOMAIN map) \cup {key} |-> IF k = key THEN value ELSE map[k]]

\* The state a room gets when it is first touched by addStroke.
EmptyRoomState == [strokes |-> <<>>, undoStacks |-> <<>>]

\* ------------------------------------------------ DrawingStateManager
\* _getRoomState: get or create.
_getRoomState(rs, roomId) ==
    IF roomId \in DOMAIN rs THEN rs ELSE MapSet(rs, roomId, EmptyRoomState)

\* _generateStrokeId: ++this.strokeIdCounter.
_generateStrokeId(counter) == counter + 1

\* Faulty addStroke: the id is taken from the length of the active strokes
\* instead of the counter, so the id of an undone stroke is handed out again.
addStroke_idFromLength(rs, counter, roomId, strokeData) ==
    LET rs1 == _getRoomState(rs, roomId)
        room == rs1[roomId]
        stroke == [id |-> Len(room.strokes) + 1,
                   userId |-> strokeData.userId,
                   type |-> strokeData.type,
                   color |-> strokeData.color,
                   size |-> strokeData.size,
                   path |-> strokeData.path]
    IN  [roomStates |->
             [rs1 EXCEPT ![roomId] =
                 [strokes |-> Append(room.strokes, stroke),
                  undoStacks |-> MapDelete(room.undoStacks, strokeData.userId)]],
         strokeIdCounter |-> _generateStrokeId(counter),
         ret |-> stroke]

\* Faulty addStroke: the user's undo stack is not deleted.
addStroke_keepUndoStack(rs, counter, roomId, strokeData) ==
    LET rs1 == _getRoomState(rs, roomId)
        id == _generateStrokeId(counter)
        stroke == [id |-> id,
                   userId |-> strokeData.userId,
                   type |-> strokeData.type,
                   color |-> strokeData.color,
                   size |-> strokeData.size,
                   path |-> strokeData.path]
    IN  [roomStates |->
             [rs1 EXCEPT ![roomId].strokes = Append(@, stroke)],
         strokeIdCounter |-> id,
         ret |-> stroke]

\* addStroke(roomId, strokeData): mint an id, push the stroke, delete the
\* user's undo stack.  Yields the new maps, the new counter and the stroke.
addStroke(rs, counter, roomId, strokeData) ==
    LET rs1 == _getRoomState(rs, roomId)
        id == _generateStrokeId(counter)
        stroke == [id |-> id,
                   userId |-> strokeData.userId,
                   type |-> strokeData.type,
                   color |-> strokeData.color,
                   size |-> strokeData.size,
                   path |-> strokeData.path]
        room == rs1[roomId]
    IN  [roomStates |->
             [rs1 EXCEPT ![roomId] =
                 [strokes |-> Append(room.strokes, stroke),
                  undoStacks |-> MapDelete(room.undoStacks, strokeData.userId)]],
         strokeIdCounter |-> id,
         ret |-> stroke]

\* Faulty updateStroke: a stroke that is not among the active strokes is
\* looked for in the undo stacks too.
updateStroke_undoneToo(rs, roomId, strokeId, point) ==
    IF roomId \notin DOMAIN rs
    THEN [roomStates |-> rs, ret |-> FALSE]
    ELSE LET i == FindIndex(rs[roomId].strokes, strokeId)
             stacks == rs[roomId].undoStacks
             In(u) == FindIndex(stacks[u], strokeId)
         IN  IF i # 0
             THEN [roomStates |->
                       [rs EXCEPT ![roomId].strokes[i].path = Append(@, point)],
                   ret |-> TRUE]
             ELSE IF \E u \in DOMAIN stacks : In(u) # 0
             THEN LET u == CHOOSE v \in DOMAIN stacks : In(v) # 0
                  IN  [roomStates |->
                           [rs EXCEPT ![roomId].undoStacks[u][In(u)].path =
                                          Append(@, point)],
                       ret |-> TRUE]
             ELSE [roomStates |-> rs, ret |-> FALSE]

\* Faulty updateStroke: the point overwrites the last point of the path.
updateStroke_replaceLast(rs, roomId, strokeId, point) ==
    IF roomId \notin DOMAIN rs
    THEN [roomStates |-> rs, ret |-> FALSE]
    ELSE LET i == FindIndex(rs[roomId].strokes, strokeId)
         IN  IF i = 0
             THEN [roomStates |-> rs, ret |-> FALSE]
             ELSE [roomStates |->
                       [rs EXCEPT ![roomId].strokes[i].path =
                                      [@ EXCEPT ![Len(@)] = point]],
                   ret |-> TRUE]

\* Faulty updateStroke: the point is put at the front of the path (unshift
\* instead of push).
updateStroke_unshift(rs, roomId, strokeId, point) ==
    IF roomId \notin DOMAIN rs
    THEN [roomStates |-> rs, ret |-> FALSE]
    ELSE LET i == FindIndex(rs[roomId].strokes, strokeId)
         IN  IF i = 0
             THEN [roomStates |-> rs, ret |-> FALSE]
             ELSE [roomStates |->
                       [rs EXCEPT ![roomId].strokes[i].path = <<point>> \o @],
                   ret |-> TRUE]

\* updateStroke(roomId, strokeId, x, y): push the point on the stroke found
\* in the room's active strokes; false when room or stroke is missing.
updateStroke(rs, roomId, strokeId, point) ==
    IF roomId \notin DOMAIN rs
    THEN [roomStates |-> rs, ret |-> FALSE]
    ELSE LET i == FindIndex(rs[roomId].strokes, strokeId)
         IN  IF i = 0
             THEN [roomStates |-> rs, ret |-> FALSE]
             ELSE [roomStates |->
                       [rs EXCEPT ![roomId].strokes[i].path = Append(@, point)],
                   ret |-> TRUE]

\* finalizeStroke(roomId, strokeId): the method body is empty.
finalizeStroke(rs, roomId, strokeId) == rs

Ids(strokes) == {strokes[i].id : i \in 1..Len(strokes)}

\* roomState.undoStacks.get(userId), <<>> when the user has no stack.
UndoStackOf(room, userId) ==
    IF userId \in DOMAIN room.undoStacks THEN room.undoStacks[userId] ELSE <<>>

\* Faulty scan: forward, stopping at the first stroke the user owns.
LastUserStrokeIndex_forward(strokes, userId) ==
    IF \E i \in 1..Len(strokes) : strokes[i].userId = userId
    THEN CHOOSE i \in 1..Len(strokes) :
             /\ strokes[i].userId = userId
             /\ \A j \in 1..(i - 1) : strokes[j].userId # userId
    ELSE 0

\* The backward scan of undo: the largest index of a stroke owned by userId,
\* 0 when the user owns none (lastUserStrokeIndex === -1).
LastUserStrokeIndex(strokes, userId) ==
    IF \E i \in 1..Len(strokes) : strokes[i].userId = userId
    THEN CHOOSE i \in 1..Len(strokes) :
             /\ strokes[i].userId = userId
             /\ \A j \in (i + 1)..Len(strokes) : strokes[j].userId # userId
    ELSE 0

\* Faulty undo: the stroke is pushed on the undo stack but not spliced out of
\* the active strokes.
undo_noSplice(rs, roomId, userId) ==
    IF roomId \notin DOMAIN rs
    THEN [roomStates |-> rs, ret |-> <<>>, idx |-> 0]
    ELSE LET room == rs[roomId]
             i == LastUserStrokeIndex(room.strokes, userId)
         IN  IF i = 0
             THEN [roomStates |-> rs, ret |-> <<>>, idx |-> 0]
             ELSE [roomStates |->
                       [rs EXCEPT ![roomId].undoStacks =
                           MapSet(room.undoStacks, userId,
                                  Append(UndoStackOf(room, userId), room.strokes[i]))],
                   ret |-> <<room.strokes[i]>>,
                   idx |-> i]

\* Faulty undo: when the user owns a stroke, the last element of the active
\* strokes is popped, whoever owns it.
undo_popLast(rs, roomId, userId) ==
    IF roomId \notin DOMAIN rs
    THEN [roomStates |-> rs, ret |-> <<>>, idx |-> 0]
    ELSE LET room == rs[roomId]
             n == Len(room.strokes)
         IN  IF LastUserStrokeIndex(room.strokes, userId) = 0
             THEN [roomStates |-> rs, ret |-> <<>>, idx |-> 0]
             ELSE [roomStates |->
                       [rs EXCEPT ![roomId] =
                           [strokes |-> SubSeq(room.strokes, 1, n - 1),
                            undoStacks |->
                                MapSet(room.undoStacks, userId,
                                       Append(UndoStackOf(room, userId),
                                              room.strokes[n]))]],
                   ret |-> <<room.strokes[n]>>,
                   idx |-> n]

\* Faulty undo: the room's state is fetched with _getRoomState, which creates
\* it when the room has none.
undo_getRoomState(rs, roomId, userId) ==
    LET rs1 == _getRoomState(rs, roomId)
        room == rs1[roomId]
        i == LastUserStrokeIndex(room.strokes, userId)
    IN  IF i = 0
        THEN [roomStates |-> rs1, ret |-> <<>>, idx |-> 0]
        ELSE LET undoneStroke == room.strokes[i]
                 stack == UndoStackOf(room, userId)
             IN  [roomStates |->
                      [rs1 EXCEPT ![roomId] =
                          [strokes |-> Splice(room.strokes, i),
                           undoStacks |->
                               MapSet(room.undoStacks, userId,
                                      Append(stack, undoneStroke))]],
                  ret |-> <<undoneStroke>>,
                  idx |-> i]

\* undo(roomId, userId): splice the user's latest stroke out of the active
\* strokes and push it on the user's undo stack.  ret is <<>> for null.
undo(rs, roomId, userId) ==
    IF roomId \notin DOMAIN rs
    THEN [roomStates |-> rs, ret |-> <<>>, idx |-> 0]
    ELSE LET room == rs[roomId]
             i == LastUserStrokeIndex(room.strokes, userId)
         IN  IF i = 0
             THEN [roomStates |-> rs, ret |-> <<>>, idx |-> 0]
             ELSE LET undoneStroke == room.strokes[i]
                      stack == UndoStackOf(room, userId)
                  IN  [roomStates |->
                           [rs EXCEPT ![roomId] =
                               [strokes |-> Splice(room.strokes, i),
                                undoStacks |->
                                    MapSet(room.undoStacks, userId,
                                           Append(stack, undoneStroke))]],
                       ret |-> <<undoneStroke>>,
                       idx |-> i]

\* Faulty redo: the stroke is put back at the front of the active strokes
\* (unshift instead of push).
redo_unshift(rs, roomId, userId) ==
    IF roomId \notin DOMAIN rs
    THEN [roomStates |-> rs, ret |-> <<>>]
    ELSE LET room == rs[roomId]
             undoStack == UndoStackOf(room, userId)
             rest == SubSeq(undoStack, 1, Len(undoStack) - 1)
         IN  IF Len(undoStack) = 0
             THEN [roomStates |-> rs, ret |-> <<>>]
             ELSE [roomStates |->
                       [rs EXCEPT ![roomId] =
                           [strokes |-> <<undoStack[Len(undoStack)]>> \o room.strokes,
                            undoStacks |->
                                IF Len(rest) = 0
                                THEN MapDelete(room.undoStacks, userId)
                                ELSE MapSet(room.undoStacks, userId, rest)]],
                   ret |-> <<undoStack[Len(undoStack)]>>]

\* Faulty redo: the oldest undone stroke is taken (shift instead of pop).
redo_shift(rs, roomId, userId) ==
    IF roomId \notin DOMAIN rs
    THEN [roomStates |-> rs, ret |-> <<>>]
    ELSE LET room == rs[roomId]
             undoStack == UndoStackOf(room, userId)
             rest == Tail(undoStack)
         IN  IF Len(undoStack) = 0
             THEN [roomStates |-> rs, ret |-> <<>>]
             ELSE [roomStates |->
                       [rs EXCEPT ![roomId] =
                           [strokes |-> Append(room.strokes, undoStack[1]),
                            undoStacks |->
                                IF Len(rest) = 0
                                THEN MapDelete(room.undoStacks, userId)
                                ELSE MapSet(room.undoStacks, userId, rest)]],
                   ret |-> <<undoStack[1]>>]

\* redo(roomId, userId): pop the user's undo stack, push the stroke at the
\* end of the active strokes, delete the stack when it became empty.
redo(rs, roomId, userId) ==
    IF roomId \notin DOMAIN rs
    THEN [roomStates |-> rs, ret |-> <<>>]
    ELSE LET room == rs[roomId]
         IN  IF userId \notin DOMAIN room.undoStacks
                \/ Len(room.undoStacks[userId]) = 0
             THEN [roomStates |-> rs, ret |-> <<>>]
             ELSE LET undoStack == room.undoStacks[userId]
                      redoneStroke == undoStack[Len(undoStack)]
                      rest == SubSeq(undoStack, 1, Len(undoStack) - 1)
                  IN  [roomStates |->
                           [rs EXCEPT ![roomId] =
                               [strokes |-> Append(room.strokes, redoneStroke),
                                undoStacks |->
                                    IF Len(rest) = 0
                                    THEN MapDelete(room.undoStacks, userId)
                                    ELSE MapSet(room.undoStacks, userId, rest)]],
                       ret |-> <<redoneStroke>>]

\* getFullState(roomId): the active strokes, each copied field by field.
getFullState(rs, roomId) ==
    IF roomId \notin DOMAIN rs
    THEN [roomId |-> roomId, strokes |-> <<>>]
    ELSE [roomId |-> roomId,
          strokes |->
              [i \in 1..Len(rs[roomId].strokes) |->
                  LET stroke == rs[roomId].strokes[i]
                  IN  [id |-> stroke.id,
                       userId |-> stroke.userId,
                       type |-> stroke.type,
                       color |-> stroke.color,
                       size |-> stroke.size,
                       path |-> stroke.path]]]

\* ------------------------------------------------------ derived views
\* The active timeline and one user's undo stack of a room (empty when the
\* room or the stack is absent).
Timeline(rs, roomId) ==
    IF roomId \in DOMAIN rs THEN rs[roomId].strokes ELSE <<>>

UndoStack(rs, roomId, userId) ==
    IF roomId \in DOMAIN rs THEN UndoStackOf(rs[roomId], userId) ELSE <<>>

\* Every stroke the store still holds, active or undone, in any room.
StoredIds(rs) ==
    UNION {Ids(rs[r].strokes)
               \cup UNION {Ids(rs[r].undoStacks[u]) : u \in DOMAIN rs[r].undoStacks}
           : r \in DOMAIN rs}


\* The ids in the undo stacks of any room.
UndoneIds(rs) ==
    UNION {UNION {Ids(rs[r].undoStacks[u]) : u \in DOMAIN rs[r].undoStacks}
           : r \in DOMAIN rs}

\* The entries of the undo history whose stroke is still in an undo stack.
StillUndone(log, rs) ==
    LET Kept(e) == e.id \in UndoneIds(rs)
    IN  SelectSeq(log, Kept)

\* strokeIdCounter at the time stroke id was undone (0 when it is not undone).
UndoneAt(log, id) ==
    IF \E i \in 1..Len(log) : log[i].id = id
    THEN log[CHOOSE i \in 1..Len(log) : log[i].id = id].at
    ELSE 0

\* ------------------------------------------------- a returned snapshot
\* An array of points as a caller holds it: an array of its own with its
\* points, or (ref) the very array that stroke id of the store holds.  A
\* stroke's path is the one array of the store a result could share: every
\* other field is a primitive, and map and the object literal make a new
\* array of new objects.
\* Faulty copy: path: stroke.path, the array of the store itself.
SpreadPath_sameArray(stroke) ==
    [ref |-> TRUE, id |-> stroke.id, points |-> <<>>]

\* [...stroke.path]: an array of its own with the points the path holds now.
SpreadPath(stroke) ==
    [ref |-> FALSE, id |-> stroke.id, points |-> stroke.path]

\* What getFullState(roomId) hands to its caller: the strokes of
\* getFullState, each path as the array the caller holds.
Returned(rs, roomId) ==
    LET state == getFullState(rs, roomId)
    IN  [state EXCEPT !.strokes =
            [i \in 1..Len(state.strokes) |->
                [state.strokes[i] EXCEPT !.path = SpreadPath(rs[roomId].strokes[i])]]]

\* The stroke objects a room holds, on the timeline or in an undo stack.
StrokeObjects(rs, roomId) ==
    IF roomId \notin DOMAIN rs
    THEN {}
    ELSE LET room == rs[roomId]
             Of(strokes) == {strokes[i] : i \in 1..Len(strokes)}
         IN  Of(room.strokes)
                 \cup UNION {Of(room.undoStacks[u]) : u \in DOMAIN room.undoStacks}

\* The points a caller reads from an array it holds.
ReadPath(rs, roomId, array) ==
    IF array.ref
    THEN IF \E stroke \in StrokeObjects(rs, roomId) : stroke.id = array.id
         THEN (CHOOSE stroke \in StrokeObjects(rs, roomId) : stroke.id = array.id).path
         ELSE <<>>
    ELSE array.points

\* The strokes a caller reads from a result it holds.
ReadState(rs, result) ==
    [i \in 1..Len(result.strokes) |->
        [result.strokes[i] EXCEPT
            !.path = ReadPath(rs, result.roomId, result.strokes[i].path)]]

\* --------------------------------------------------------- RoomManager
\* The predefined color palette for users.
USER_COLORS ==
    <<"#FF6B6B", "#4ECDC4", "#45B7D1", "#FFA07A", "#98D8C8",
      "#F7DC6F", "#BB8FCE", "#85C1E2", "#F8B739", "#52BE80">>

\* A JavaScript Set of socket ids is a sequence without duplicates, in
\* insertion order: Set.prototype.add, delete, has.
SetAdd(set, e) ==
    IF \E i \in 1..Len(set) : set[i] = e THEN set ELSE Append(set, e)

SetDelete(set, e) ==
    LET Other(x) == x # e
    IN  SelectSeq(set, Other)

\* The user id `user_${++this.userIdCounter}_${Date.now()}`: two ids are equal
\* only if their counters are.
UserId(counter) == "u" \o ToString(counter)

\* The RoomManager as one value.
RoomManager ==
    [users |-> users, rooms |-> rooms, roomColors |-> roomColors,
     userIdCounter |-> userIdCounter]

\* USER_COLORS.find(color => !usedColors.has(color)): the index of the first
\* palette color not in use, 0 when all are.
FirstFreeColor(usedColors) ==
    IF \E i \in 1..Len(USER_COLORS) : USER_COLORS[i] \notin usedColors
    THEN CHOOSE i \in 1..Len(USER_COLORS) :
             /\ USER_COLORS[i] \notin usedColors
             /\ \A j \in 1..(i - 1) : USER_COLORS[j] \in usedColors
    ELSE 0

\* addUser(socketId, roomId): mint a user id, create the room when it is
\* absent, take the first free color (else the palette color at index random,
\* the outcome of Math.random), store the user under the socket id and add the
\* socket to the room.  Yields the new registry and the user.
addUser(rm, socketId, roomId, random) ==
    LET counter == rm.userIdCounter + 1
        rooms1 == IF roomId \in DOMAIN rm.rooms
                  THEN rm.rooms ELSE MapSet(rm.rooms, roomId, <<>>)
        roomColors1 == IF roomId \in DOMAIN rm.rooms
                       THEN rm.roomColors ELSE MapSet(rm.roomColors, roomId, {})
        usedColors == roomColors1[roomId]
        free == FirstFreeColor(usedColors)
        assignedColor == IF free # 0 THEN USER_COLORS[free] ELSE USER_COLORS[random]
        user == [userId |-> UserId(counter), socketId |-> socketId,
                 roomId |-> roomId, color |-> assignedColor]
    IN  [rm |-> [users |-> MapSet(rm.users, socketId, user),
                 rooms |-> [rooms1 EXCEPT ![roomId] = SetAdd(@, socketId)],
                 roomColors |->
                     [roomColors1 EXCEPT ![roomId] = @ \cup {assignedColor}],
                 userIdCounter |-> counter],
         ret |-> user]

\* removeUser(socketId): take the socket out of its user's room; delete the
\* room and its colors when it became empty, else free the user's color;
\* delete the user.  Nothing when the socket has no user.
removeUser(rm, socketId) ==
    IF socketId \notin DOMAIN rm.users
    THEN rm
    ELSE LET roomId == rm.users[socketId].roomId
             color == rm.users[socketId].color
         IN  IF roomId \notin DOMAIN rm.rooms
             THEN [rm EXCEPT !.users = MapDelete(@, socketId)]
             ELSE LET roomSockets == SetDelete(rm.rooms[roomId], socketId)
                  IN  IF Len(roomSockets) = 0
                      THEN [rm EXCEPT !.users = MapDelete(@, socketId),
                                      !.rooms = MapDelete(@, roomId),
                                      !.roomColors = MapDelete(@, roomId)]
                      ELSE [rm EXCEPT !.users = MapDelete(@, socketId),
                                      !.rooms[roomId] = roomSockets,
                                      !.roomColors[roomId] = @ \ {color}]

\* getUser(socketId): <<user>>, or <<>> for null.
getUser(rm, socketId) ==
    IF socketId \in DOMAIN rm.users THEN <<rm.users[socketId]>> ELSE <<>>

\* getRoomUserCount(roomId): the size of the room's socket set, 0 without room.
getRoomUserCount(rm, roomId) ==
    IF roomId \in DOMAIN rm.rooms THEN Len(rm.rooms[roomId]) ELSE 0

\* getRoomUsers(roomId): the users of the room's sockets, in the order of the
\* socket set, without the sockets that have no user.
getRoomUsers(rm, roomId) ==
    IF roomId \notin DOMAIN rm.rooms
    THEN <<>>
    ELSE LET HasUser(socketId) == socketId \in DOMAIN rm.users
             present == SelectSeq(rm.rooms[roomId], HasUser)
         IN  [i \in 1..Len(present) |-> rm.users[present[i]]]

\* ------------------------------------------------------------ socket.io
\* The id of the n-th connection the server accepts.
SocketId(n) == "s" \o ToString(n)

\* The open sockets that joined the socket.io room roomId: the receivers of
\* io.to(roomId).emit.
IoTo(socks, roomId) == {s \in DOMAIN socks : roomId \in socks[s]}

\* The receivers of socket.to(roomId).emit: the room without the sender.
SocketTo(socks, socketId, roomId) == IoTo(socks, roomId) \ {socketId}

\* One sent event: its name, the sockets it is delivered to, its payload.
Emit(event, to, data) == [event |-> event, to |-> to, data |-> data]

\* A payload field the client left out (undefined), and a missing stroke id.
NoRoomId == ""
NoStrokeId == 0

\* The record of a handled request.  ok tells that the request found what it
\* named: updateStroke returned true, undo / redo returned a stroke, the
\* stroke named by a stroke-end was on the room's timeline (the stroke-end
\* handler itself never looks and broadcasts either way).  A request that
\* found nothing left the store as it was; only its kind is kept.
NoRequest ==
    [op |-> "init", roomId |-> "none", userId |-> "none", strokeId |-> 0,
     ok |-> FALSE, ret |-> <<>>, idx |-> 0, depth |-> 0, cleared |-> 0,
     since |-> 0, malformed |-> FALSE]

Failed(op) == [NoRequest EXCEPT !.op = op]

\* A request the handler returned from at its first check (`if (!roomId)`,
\* `if (!roomId || !strokeId)`).
Malformed(op) == [NoRequest EXCEPT !.op = op, !.malformed = TRUE]

Done(op, roomId, userId, strokeId) ==
    [NoRequest EXCEPT !.op = op, !.roomId = roomId, !.userId = userId,
                      !.strokeId = strokeId, !.ok = TRUE]

\* ----------------------------------------------------------- the machine
Init ==
    /\ users = <<>>
    /\ rooms = <<>>
    /\ roomColors = <<>>
    /\ userIdCounter = 0
    /\ connections = 0
    /\ sockets = <<>>
    /\ emitted = <<>>
    /\ roomStates = <<>>
    /\ strokeIdCounter = 0
    /\ minted = {}
    /\ sent = <<>>
    /\ ended = {}
    /\ undone = <<>>
    /\ last = NoRequest
    /\ clients = <<>>
    /\ outbox = <<>>
    /\ inbox = <<>>
    /\ provisional = 0
    /\ own = <<>>
    /\ closed = {}
    /\ clicks = 0
    /\ held = <<>>
    /\ heldAt = <<>>

\* socket.on('stroke-start'): addStroke with a one-point path for the
\* connection's user, in the room the payload names.
StrokeStart(roomId, userId, point) ==
    /\ strokeIdCounter < MaxStrokes
    /\ LET r == addStroke(roomStates, strokeIdCounter, roomId,
                          [userId |-> userId,
                           type |-> Brush(userId).type,
                           color |-> Brush(userId).color,
                           size |-> Brush(userId).size,
                           path |-> <<point>>])
           kept == StoredIds(r.roomStates)
       IN  /\ roomStates' = r.roomStates
           /\ strokeIdCounter' = r.strokeIdCounter
           /\ minted' = minted \cup {r.ret.id}
           /\ sent' = [id \in kept \cup {r.ret.id} |->
                          IF id \in DOMAIN sent THEN sent[id] ELSE <<point>>]
           /\ ended' = ended \cap kept
           /\ undone' = StillUndone(undone, r.roomStates)
           /\ last' = [Done("stroke-start", roomId, userId, r.ret.id)
                          EXCEPT !.ret = <<r.ret>>,
                                 !.cleared = Len(UndoStack(roomStates, roomId, userId))]

\* socket.on('stroke-update'): updateStroke; the point is broadcast only when
\* it returned true.
StrokeUpdate(roomId, strokeId, point) ==
    /\ \A i \in 1..Len(Timeline(roomStates, roomId)) :
           Timeline(roomStates, roomId)[i].id = strokeId
               => Len(Timeline(roomStates, roomId)[i].path) < MaxPath
    /\ LET r == updateStroke(roomStates, roomId, strokeId, point)
       IN  /\ roomStates' = r.roomStates
           /\ sent' = IF r.ret /\ strokeId \in DOMAIN sent
                      THEN [sent EXCEPT ![strokeId] = Append(@, point)]
                      ELSE sent
           /\ last' = IF r.ret
                      THEN Done("stroke-update", roomId, "none", strokeId)
                      ELSE Failed("stroke-update")
    /\ UNCHANGED <<strokeIdCounter, minted, ended, undone>>

\* socket.on('stroke-end'): finalizeStroke, then the broadcast.
StrokeEnd(roomId, strokeId) ==
    /\ roomStates' = finalizeStroke(roomStates, roomId, strokeId)
    /\ ended' = IF strokeId \in Ids(Timeline(roomStates, roomId))
                THEN ended \cup {strokeId}
                ELSE ended
    /\ last' = IF strokeId \in Ids(Timeline(roomStates, roomId))
               THEN Done("stroke-end", roomId, "none", strokeId)
               ELSE Failed("stroke-end")
    /\ UNCHANGED <<strokeIdCounter, minted, sent, undone>>

\* socket.on('undo'): undo for the connection's user.
Undo(roomId, userId) ==
    /\ LET r == undo(roomStates, roomId, userId)
       IN  /\ roomStates' = r.roomStates
           /\ undone' = IF r.ret # <<>>
                        THEN Append(undone,
                                    [id |-> r.ret[1].id, userId |-> userId,
                                     roomId |-> roomId, at |-> strokeIdCounter,
                                     stroke |-> r.ret[1]])
                        ELSE undone
           /\ last' = IF r.ret # <<>>
                      THEN [Done("undo", roomId, userId, r.ret[1].id)
                               EXCEPT !.ret = r.ret, !.idx = r.idx]
                      ELSE Failed("undo")
    /\ UNCHANGED <<strokeIdCounter, minted, sent, ended>>

\* socket.on('redo'): redo for the connection's user.
Redo(roomId, userId) ==
    /\ LET r == redo(roomStates, roomId, userId)
       IN  /\ roomStates' = r.roomStates
           /\ undone' = StillUndone(undone, r.roomStates)
           /\ last' = IF r.ret # <<>>
                      THEN [Done("redo", roomId, userId, r.ret[1].id)
                               EXCEPT !.ret = r.ret,
                                      !.depth = Len(UndoStack(roomStates, roomId, userId)),
                                      !.since = strokeIdCounter
                                                    - UndoneAt(undone, r.ret[1].id)]
                      ELSE Failed("redo")
    /\ UNCHANGED <<strokeIdCounter, minted, sent, ended>>

\* -------------------------------------------------- the socket handlers
\* The state of the RoomManager.
registryVars == <<users, rooms, roomColors, userIdCounter>>

\* A handler that returned at a check: nothing sent, nothing changed.
Dropped(request) ==
    /\ last' = request
    /\ emitted' = <<>>
    /\ UNCHANGED <<registryVars, connections, sockets>>
    /\ UNCHANGED storeVars

\* io.on('connection'): a new socket, in no room.
Connection(limit) ==
    /\ connections < limit
    /\ connections' = connections + 1
    /\ sockets' = MapSet(sockets, SocketId(connections + 1), {})
    /\ emitted' = <<>>
    /\ last' = [NoRequest EXCEPT !.op = "connection"]
    /\ UNCHANGED registryVars
    /\ UNCHANGED storeVars

\* The indices Math.random may yield in addUser: it is drawn only when no
\* palette color is free in the room.
RandomIndex(rm, roomId) ==
    IF roomId \in DOMAIN rm.rooms /\ FirstFreeColor(rm.roomColors[roomId]) = 0
    THEN 1..Len(USER_COLORS)
    ELSE {1}

\* {userId, color} of each user of a list.
UserInfos(list) ==
    [i \in 1..Len(list) |-> [userId |-> list[i].userId, color |-> list[i].color]]

\* socket.on('join-room'): without room id an 'error' to the sender; else
\* socket.join, addUser, then user-info, existing-users and full-state-sync
\* to the sender and user-joined to the others in the room.
JoinRoom(socketId, roomId, random) ==
    /\ socketId \in DOMAIN sockets
    /\ IF roomId = NoRoomId
       THEN /\ emitted' = <<Emit("error", {socketId},
                                 [message |-> "Room ID is required"])>>
            /\ last' = Malformed("join-room")
            /\ UNCHANGED <<registryVars, connections, sockets>>
       ELSE LET r == addUser(RoomManager, socketId, roomId, random)
              user == r.ret
              socks == [sockets EXCEPT ![socketId] = @ \cup {roomId}]
              NotSelf(u) == u.userId # user.userId
              existingUsers == SelectSeq(getRoomUsers(r.rm, roomId), NotSelf)
          IN  /\ users' = r.rm.users
              /\ rooms' = r.rm.rooms
              /\ roomColors' = r.rm.roomColors
              /\ userIdCounter' = r.rm.userIdCounter
              /\ sockets' = socks
              /\ emitted' =
                     <<Emit("user-info", {socketId},
                            [userId |-> user.userId, color |-> user.color]),
                       Emit("existing-users", {socketId},
                            UserInfos(existingUsers)),
                       Emit("user-joined", SocketTo(socks, socketId, roomId),
                            [userId |-> user.userId, color |-> user.color,
                             totalUsers |-> getRoomUserCount(r.rm, roomId)]),
                       Emit("full-state-sync", {socketId},
                            getFullState(roomStates, roomId))>>
              /\ last' = Done("join-room", roomId, user.userId, NoStrokeId)
              /\ UNCHANGED connections
    /\ UNCHANGED storeVars

\* {...stroke, roomId}
WithRoomId(stroke, roomId) ==
    [id |-> stroke.id, userId |-> stroke.userId, type |-> stroke.type,
     color |-> stroke.color, size |-> stroke.size, path |-> stroke.path,
     roomId |-> roomId]

\* socket.on('stroke-start'), from the socket: the stroke is added for the
\* socket's user in the room the payload names and sent to that room.
OnStrokeStart(socketId, roomId, point) ==
    /\ socketId \in DOMAIN sockets
    /\ IF roomId = NoRoomId
       THEN Dropped(Malformed("stroke-start"))
       ELSE IF getUser(RoomManager, socketId) = <<>>
       THEN Dropped(Failed("stroke-start"))
       ELSE /\ StrokeStart(roomId, getUser(RoomManager, socketId)[1].userId, point)
            /\ emitted' = <<Emit("stroke-start", IoTo(sockets, roomId),
                                 WithRoomId(last'.ret[1], roomId))>>
            /\ UNCHANGED <<registryVars, connections, sockets>>

\* socket.on('stroke-update'), from the socket: no user is looked up; the
\* point is sent to the room when updateStroke returned true.
OnStrokeUpdate(socketId, roomId, strokeId, point) ==
    /\ socketId \in DOMAIN sockets
    /\ IF roomId = NoRoomId \/ strokeId = NoStrokeId
       THEN Dropped(Malformed("stroke-update"))
       ELSE /\ StrokeUpdate(roomId, strokeId, point)
            /\ emitted' = IF last'.ok
                          THEN <<Emit("stroke-update", IoTo(sockets, roomId),
                                      [roomId |-> roomId, strokeId |-> strokeId,
                                       x |-> point.x, y |-> point.y])>>
                          ELSE <<>>
            /\ UNCHANGED <<registryVars, connections, sockets>>

\* socket.on('stroke-end'), from the socket: finalizeStroke, then the event is
\* sent to the room.
OnStrokeEnd(socketId, roomId, strokeId) ==
    /\ socketId \in DOMAIN sockets
    /\ IF roomId = NoRoomId \/ strokeId = NoStrokeId
       THEN Dropped(Malformed("stroke-end"))
       ELSE /\ StrokeEnd(roomId, strokeId)
            /\ emitted' = <<Emit("stroke-end", IoTo(sockets, roomId),
                                 [roomId |-> roomId, strokeId |-> strokeId])>>
            /\ UNCHANGED <<registryVars, connections, sockets>>

\* socket.on('cursor-move'): the position of the socket's user is sent to the
\* others in the room the payload names.
CursorMove(socketId, roomId, point) ==
    /\ socketId \in DOMAIN sockets
    /\ IF roomId = NoRoomId
       THEN Dropped(Malformed("cursor-move"))
       ELSE IF getUser(RoomManager, socketId) = <<>>
       THEN Dropped(Failed("cursor-move"))
       ELSE LET user == getUser(RoomManager, socketId)[1]
            IN  /\ emitted' = <<Emit("cursor-move",
                                     SocketTo(sockets, socketId, roomId),
                                     [roomId |-> roomId, userId |-> user.userId,
                                      color |-> user.color,
                                      x |-> point.x, y |-> point.y])>>
                /\ last' = Done("cursor-move", roomId, user.userId, NoStrokeId)
                /\ UNCHANGED <<registryVars, connections, sockets>>
                /\ UNCHANGED storeVars

\* Faulty undo handler: the event is sent without looking at what undo
\* returned (stroke id 0 when it returned null).
OnUndo_emitAlways(socketId, roomId) ==
    /\ socketId \in DOMAIN sockets
    /\ IF roomId = NoRoomId
       THEN Dropped(Malformed("undo"))
       ELSE IF getUser(RoomManager, socketId) = <<>>
       THEN Dropped(Failed("undo"))
       ELSE LET user == getUser(RoomManager, socketId)[1]
            IN  /\ Undo(roomId, user.userId)
                /\ emitted' = <<Emit("undo", IoTo(sockets, roomId),
                                     [roomId |-> roomId,
                                      userId |-> user.userId,
                                      strokeId |-> last'.strokeId])>>
                /\ UNCHANGED <<registryVars, connections, sockets>>

\* socket.on('undo'), from the socket: undo for the socket's user; the event
\* is sent to the room when a stroke was undone.
OnUndo(socketId, roomId) ==
    /\ socketId \in DOMAIN sockets
    /\ IF roomId = NoRoomId
       THEN Dropped(Malformed("undo"))
       ELSE IF getUser(RoomManager, socketId) = <<>>
       THEN Dropped(Failed("undo"))
       ELSE LET user == getUser(RoomManager, socketId)[1]
            IN  /\ Undo(roomId, user.userId)
                /\ emitted' = IF last'.ok
                              THEN <<Emit("undo", IoTo(sockets, roomId),
                                          [roomId |-> roomId,
                                           userId |-> user.userId,
                                           strokeId |-> last'.ret[1].id])>>
                              ELSE <<>>
                /\ UNCHANGED <<registryVars, connections, sockets>>

\* socket.on('redo'), from the socket: redo for the socket's user; the event
\* is sent to the room when a stroke was redone.
OnRedo(socketId, roomId) ==
    /\ socketId \in DOMAIN sockets
    /\ IF roomId = NoRoomId
       THEN Dropped(Malformed("redo"))
       ELSE IF getUser(RoomManager, socketId) = <<>>
       THEN Dropped(Failed("redo"))
       ELSE LET user == getUser(RoomManager, socketId)[1]
            IN  /\ Redo(roomId, user.userId)
                /\ emitted' = IF last'.ok
                              THEN <<Emit("redo", IoTo(sockets, roomId),
                                          [roomId |-> roomId,
                                           userId |-> user.userId,
                                           stroke |-> last'.ret[1]])>>
                              ELSE <<>>
                /\ UNCHANGED <<registryVars, connections, sockets>>

\* socket.on('disconnect'): the socket has left its socket.io rooms; its user,
\* when it has one, is removed and user-left is sent to the others in the
\* user's room.
Disconnect(socketId) ==
    /\ socketId \in DOMAIN sockets
    /\ sockets' = MapDelete(sockets, socketId)
    /\ IF getUser(RoomManager, socketId) = <<>>
       THEN /\ emitted' = <<>>
            /\ last' = Failed("disconnect")
            /\ UNCHANGED registryVars
       ELSE LET user == getUser(RoomManager, socketId)[1]
                rm == removeUser(RoomManager, socketId)
            IN  /\ users' = rm.users
                /\ rooms' = rm.rooms
                /\ roomColors' = rm.roomColors
                /\ userIdCounter' = rm.userIdCounter
                /\ emitted' = <<Emit("user-left",
                                     SocketTo(sockets', socketId, user.roomId),
                                     [userId |-> user.userId,
                                      totalUsers |->
                                          getRoomUserCount(rm, user.roomId)])>>
                /\ last' = Done("disconnect", user.roomId, user.userId, NoStrokeId)
    /\ UNCHANGED connections
    /\ UNCHANGED storeVars

\* The requests the server may receive when the rooms, users and points the
\* clients name are drawn from R, U and P.
NextOver(R, U, P) ==
    \/ /\ \E roomId \in R, userId \in U, point \in P :
              StrokeStart(roomId, userId, point)
       /\ UNCHANGED <<serverVars, clientVars, callerVars>>
    \/ /\ \E roomId \in R, strokeId \in StrokeIds, point \in P :
              StrokeUpdate(roomId, strokeId, point)
       /\ UNCHANGED <<serverVars, clientVars, callerVars>>
    \/ /\ \E roomId \in R, strokeId \in StrokeIds : StrokeEnd(roomId, strokeId)
       /\ UNCHANGED <<serverVars, clientVars, callerVars>>
    \/ /\ \E roomId \in R, userId \in U : Undo(roomId, userId)
       /\ UNCHANGED <<serverVars, clientVars, callerVars>>
    \/ /\ \E roomId \in R, userId \in U : Redo(roomId, userId)
       /\ UNCHANGED <<serverVars, clientVars, callerVars>>

\* One room, two users, one point value: the timeline / undo-stack structure.
Next == NextOver({"r1"}, Users, {Origin})

Spec == Init /\ [][Next]_vars

\* Two rooms, one user, one point value: the store across rooms.
NextRooms == NextOver(Rooms, {"u1"}, {Origin})

SpecRooms == Init /\ [][NextRooms]_vars

\* One room, one user, varying points: the point sequences.
NextPath == NextOver({"r1"}, {"u1"}, Points)

SpecPath == Init /\ [][NextPath]_vars

\* A caller gets the full state of a room and keeps the result;
\* getFullState assigns nothing.
GetFullState(roomId) ==
    /\ held = <<>>
    /\ held' = <<Returned(roomStates, roomId)>>
    /\ heldAt' = ReadState(roomStates, Returned(roomStates, roomId))
    /\ UNCHANGED <<storeVars, last>>

\* One room, one user, one point value, and a caller that takes the full
\* state once, at any time, and keeps it.
NextCaller ==
    \/ /\ \E point \in {Origin} : StrokeStart("r1", "u1", point)
       /\ UNCHANGED <<serverVars, clientVars, callerVars>>
    \/ /\ \E strokeId \in StrokeIds : StrokeUpdate("r1", strokeId, Origin)
       /\ UNCHANGED <<serverVars, clientVars, callerVars>>
    \/ /\ \E strokeId \in StrokeIds : StrokeEnd("r1", strokeId)
       /\ UNCHANGED <<serverVars, clientVars, callerVars>>
    \/ /\ Undo("r1", "u1")
       /\ UNCHANGED <<serverVars, clientVars, callerVars>>
    \/ /\ Redo("r1", "u1")
       /\ UNCHANGED <<serverVars, clientVars, callerVars>>
    \/ /\ \E roomId \in Rooms : GetFullState(roomId)
       /\ UNCHANGED <<serverVars, clientVars>>

SpecCaller == Init /\ [][NextCaller]_vars


\* A socket that is open and has not joined a room yet.
Pending(socketId) ==
    socketId \in DOMAIN sockets /\ getUser(RoomManager, socketId) = <<>>

\* The registry alone, in a crowded room, with more connections than palette
\* colors: each connection joins room r1 once, right after it was accepted
\* (as the client does on connect), and connections leave while the room
\* holds at least as many members as the palette has colors.
NextPalette ==
    \/ /\ /\ \A socketId \in DOMAIN sockets : ~Pending(socketId)
          /\ Connection(Len(USER_COLORS) + MaxConnections)
       /\ UNCHANGED <<clientVars, callerVars>>
    \/ /\ \E socketId \in DOMAIN sockets :
              /\ Pending(socketId)
              /\ \E random \in RandomIndex(RoomManager, "r1") :
                     JoinRoom(socketId, "r1", random)
       /\ UNCHANGED <<clientVars, callerVars>>
    \/ /\ \E socketId \in DOMAIN sockets :
              /\ getRoomUserCount(RoomManager, "r1") >= Len(USER_COLORS)
              /\ Disconnect(socketId)
       /\ UNCHANGED <<clientVars, callerVars>>

SpecPalette == Init /\ [][NextPalette]_vars

\* One room, each connection joining it once: strokes started, undone and
\* redone, connections coming and going (who is sent what).
NextBroadcast ==
    \/ /\ Connection(MaxConnections)
       /\ UNCHANGED <<clientVars, callerVars>>
    \/ /\ \E socketId \in DOMAIN sockets :
              /\ Pending(socketId)
              /\ \E random \in RandomIndex(RoomManager, "r1") :
                     JoinRoom(socketId, "r1", random)
       /\ UNCHANGED <<clientVars, callerVars>>
    \/ /\ \E socketId \in DOMAIN sockets : OnStrokeStart(socketId, "r1", Origin)
       /\ UNCHANGED <<clientVars, callerVars>>
    \/ /\ \E socketId \in DOMAIN sockets : OnUndo(socketId, "r1")
       /\ UNCHANGED <<clientVars, callerVars>>
    \/ /\ \E socketId \in DOMAIN sockets : OnRedo(socketId, "r1")
       /\ UNCHANGED <<clientVars, callerVars>>
    \/ /\ \E socketId \in DOMAIN sockets : Disconnect(socketId)
       /\ UNCHANGED <<clientVars, callerVars>>

SpecBroadcast == Init /\ [][NextBroadcast]_vars

\* Two rooms: a connection may join again, the same room or the other, and
\* its requests may name either room.
NextTwoRooms ==
    \/ /\ Connection(MaxConnections)
       /\ UNCHANGED <<clientVars, callerVars>>
    \/ /\ \E socketId \in DOMAIN sockets, roomId \in Rooms :
              /\ userIdCounter < MaxUsers
              /\ \E random \in RandomIndex(RoomManager, roomId) :
                     JoinRoom(socketId, roomId, random)
       /\ UNCHANGED <<clientVars, callerVars>>
    \/ /\ \E socketId \in DOMAIN sockets, roomId \in Rooms :
              OnStrokeStart(socketId, roomId, Origin)
       /\ UNCHANGED <<clientVars, callerVars>>
    \/ /\ \E socketId \in DOMAIN sockets, roomId \in Rooms :
              CursorMove(socketId, roomId, Origin)
       /\ UNCHANGED <<clientVars, callerVars>>
    \/ /\ \E socketId \in DOMAIN sockets, roomId \in Rooms : OnUndo(socketId, roomId)
       /\ UNCHANGED <<clientVars, callerVars>>
    \/ /\ \E socketId \in DOMAIN sockets, roomId \in Rooms : OnRedo(socketId, roomId)
       /\ UNCHANGED <<clientVars, callerVars>>
    \/ /\ \E socketId \in DOMAIN sockets : Disconnect(socketId)
       /\ UNCHANGED <<clientVars, callerVars>>

SpecTwoRooms == Init /\ [][NextTwoRooms]_vars

\* Each connection joining once: every request a connection may send,
\* well-formed or not, naming rooms of R and points of P.
NextServerOver(R, P) ==
    \/ /\ Connection(MaxConnections)
       /\ UNCHANGED <<clientVars, callerVars>>
    \/ /\ \E socketId \in DOMAIN sockets, roomId \in R \cup {NoRoomId} :
              /\ Pending(socketId)
              /\ \E random \in RandomIndex(RoomManager, roomId) :
                     JoinRoom(socketId, roomId, random)
       /\ UNCHANGED <<clientVars, callerVars>>
    \/ /\ \E socketId \in DOMAIN sockets, roomId \in R \cup {NoRoomId}, point \in P :
              OnStrokeStart(socketId, roomId, point)
       /\ UNCHANGED <<clientVars, callerVars>>
    \/ /\ \E socketId \in DOMAIN sockets, roomId \in R \cup {NoRoomId},
             strokeId \in StrokeIds \cup {NoStrokeId}, point \in P :
              OnStrokeUpdate(socketId, roomId, strokeId, point)
       /\ UNCHANGED <<clientVars, callerVars>>
    \/ /\ \E socketId \in DOMAIN sockets, roomId \in R \cup {NoRoomId},
             strokeId \in StrokeIds \cup {NoStrokeId} :
              OnStrokeEnd(socketId, roomId, strokeId)
       /\ UNCHANGED <<clientVars, callerVars>>
    \/ /\ \E socketId \in DOMAIN sockets, roomId \in R \cup {NoRoomId}, point \in P :
              CursorMove(socketId, roomId, point)
       /\ UNCHANGED <<clientVars, callerVars>>
    \/ /\ \E socketId \in DOMAIN sockets, roomId \in R \cup {NoRoomId} :
              OnUndo(socketId, roomId)
       /\ UNCHANGED <<clientVars, callerVars>>
    \/ /\ \E socketId \in DOMAIN sockets, roomId \in R \cup {NoRoomId} :
              OnRedo(socketId, roomId)
       /\ UNCHANGED <<clientVars, callerVars>>
    \/ /\ \E socketId \in DOMAIN sockets : Disconnect(socketId)
       /\ UNCHANGED <<clientVars, callerVars>>

NextServer == NextServerOver({"r1"}, {Origin})

SpecServer == Init /\ [][NextServer]_vars

\* ----------------------------------------------------------- the client
\* let currentRoomId = 'default': the room every client joins and names in
\* its requests.
currentRoomId == "r1"

\* The id startStroke gives a local stroke, `local_${Date.now()}_${random}`:
\* unlike every id the server mints and every id given before.
LocalId(n) == 0 - n

\* The userId of a stroke the client itself draws.
LocalUser == "local"

\* A stroke on the client.  tag is history: the local id the stroke was
\* created with (0 for a stroke that came from the server).
ClientStroke(id, userId, path, tag) ==
    [id |-> id, userId |-> userId, path |-> path, tag |-> tag]

\* The client after DOMContentLoaded: new CanvasManager(canvas),
\* currentUserId = null, strokeIdMap = new Map().  currentPath is <<>> for
\* null, else <<stroke>>.
NewClient ==
    [currentUserId |-> "null", isDrawing |-> FALSE, currentPath |-> <<>>,
     strokes |-> <<>>, activeRemoteStrokes |-> <<>>, strokeIdMap |-> <<>>]

\* A request on its way to the server.  tag is history: the local stroke a
\* stroke-start was sent for.
Request(event, strokeId, point, tag) ==
    [event |-> event, roomId |-> currentRoomId, strokeId |-> strokeId,
     point |-> point, tag |-> tag]

\* CanvasManager.startStroke(x, y) for a local stroke.
startStroke(client, point, localId) ==
    [client EXCEPT !.isDrawing = TRUE,
                   !.currentPath =
                       <<ClientStroke(localId, LocalUser, <<point>>, localId)>>]

\* Faulty lookup: the id the stroke was created with is sent, whatever the
\* stroke holds now.
MappedId_createdWith(client, stroke) == stroke.tag

\* strokeIdMap.get(stroke.id) || stroke.id
MappedId(client, stroke) ==
    IF stroke.id \in DOMAIN client.strokeIdMap
    THEN client.strokeIdMap[stroke.id]
    ELSE stroke.id

\* CanvasManager.continueStroke(x, y), past its guard.
continueStroke(client, point) ==
    [client EXCEPT !.currentPath[1].path = Append(@, point)]

\* CanvasManager.endStroke(), past its guard, with canvasManager.onStrokeEnd:
\* the stroke is kept when it holds at least 2 points, the entry of
\* strokeIdMap under the stroke's id is deleted.
endStroke(client) ==
    LET stroke == client.currentPath[1]
    IN  [client EXCEPT !.strokes = IF Len(stroke.path) >= 2
                                   THEN Append(@, stroke) ELSE @,
                       !.strokeIdMap = MapDelete(@, stroke.id),
                       !.isDrawing = FALSE,
                       !.currentPath = <<>>]

\* CanvasManager.applyRemoteStrokeStart(stroke)
applyRemoteStrokeStart(client, stroke) ==
    IF stroke.userId = LocalUser
    THEN client
    ELSE [client EXCEPT !.activeRemoteStrokes =
             MapSet(@, stroke.id,
                    ClientStroke(stroke.id, stroke.userId, stroke.path, 0))]

\* CanvasManager.applyRemoteStrokeUpdate(strokeId, point)
applyRemoteStrokeUpdate(client, strokeId, point) ==
    IF strokeId \notin DOMAIN client.activeRemoteStrokes
    THEN client
    ELSE [client EXCEPT !.activeRemoteStrokes[strokeId].path = Append(@, point)]

\* CanvasManager.applyRemoteStrokeEnd(strokeId)
applyRemoteStrokeEnd(client, strokeId) ==
    IF strokeId \notin DOMAIN client.activeRemoteStrokes
    THEN client
    ELSE LET stroke == client.activeRemoteStrokes[strokeId]
         IN  [client EXCEPT !.strokes = IF Len(stroke.path) >= 2
                                        THEN Append(@, stroke) ELSE @,
                            !.activeRemoteStrokes = MapDelete(@, strokeId)]

\* CanvasManager.applyRemoteCompleteStroke(stroke)
applyRemoteCompleteStroke(client, stroke) ==
    IF stroke.userId = LocalUser \/ Len(stroke.path) < 2
    THEN client
    ELSE [client EXCEPT !.strokes =
             Append(@, ClientStroke(stroke.id, stroke.userId, stroke.path, 0))]

\* data.strokes.forEach(stroke => canvasManager.applyRemoteCompleteStroke(stroke))
RECURSIVE ApplyAll(_, _)
ApplyAll(client, strokes) ==
    IF strokes = <<>>
    THEN client
    ELSE ApplyAll(applyRemoteCompleteStroke(client, Head(strokes)), Tail(strokes))

\* CanvasManager.clear()
clear(client) ==
    [client EXCEPT !.strokes = <<>>, !.activeRemoteStrokes = <<>>]

\* socket.on('user-info')
RecvUserInfo(client, data) == [client EXCEPT !.currentUserId = data.userId]

\* socket.on('full-state-sync')
RecvFullStateSync(client, data) == ApplyAll(clear(client), data.strokes)

\* socket.on('stroke-start'): the client's own stroke coming back rewrites the
\* id of whatever local stroke is open now and records old id -> new id; a
\* stroke of another user is opened as a remote stroke.
RecvStrokeStart(client, data) ==
    IF data.userId = client.currentUserId
    THEN IF client.currentPath # <<>> /\ client.currentPath[1].userId = LocalUser
         THEN LET localId == client.currentPath[1].id
              IN  [client EXCEPT !.currentPath[1].id = data.id,
                                 !.strokeIdMap = MapSet(@, localId, data.id)]
         ELSE client
    ELSE applyRemoteStrokeStart(client, data)

\* socket.on('stroke-update')
RecvStrokeUpdate(client, data) ==
    applyRemoteStrokeUpdate(client, data.strokeId, [x |-> data.x, y |-> data.y])

\* socket.on('stroke-end')
RecvStrokeEnd(client, data) == applyRemoteStrokeEnd(client, data.strokeId)

\* socket.on('undo'): canvasManager.strokes.findIndex, splice.
RecvUndo(client, data) ==
    LET strokeIndex == FindIndex(client.strokes, data.strokeId)
    IN  IF strokeIndex = 0
        THEN client
        ELSE [client EXCEPT !.strokes = Splice(@, strokeIndex)]

\* socket.on('redo')
RecvRedo(client, data) == applyRemoteCompleteStroke(client, data.stroke)

\* The events whose handlers touch the canvas or currentUserId; the handlers
\* of the others (existing-users, user-joined, user-left, cursor-move) keep
\* the user list and the cursors.
CanvasEvents ==
    {"user-info", "full-state-sync", "stroke-start", "stroke-update",
     "stroke-end", "undo", "redo"}

\* The events of a handler run that socket t is sent, in the order sent.
ForClient(events, t) ==
    LET Mine(e) == t \in e.to /\ e.event \in CanvasEvents
        mine == SelectSeq(events, Mine)
    IN  [i \in 1..Len(mine) |-> [event |-> mine[i].event, data |-> mine[i].data]]

\* The channels after the server handled the first request of socket s and
\* sent events.
Served(s) ==
    /\ outbox' = [outbox EXCEPT ![s] = Tail(@)]
    /\ inbox' = [t \in DOMAIN inbox |-> inbox[t] \o ForClient(emitted', t)]

\* The first request of socket s, when it is of this kind.
Pends(s, event) == outbox[s] # <<>> /\ Head(outbox[s]).event = event

\* const socket = io(...): the connection is accepted and the client's
\* 'connect' handler sends join-room for currentRoomId.
ClientConnect(limit) ==
    /\ Connection(limit)
    /\ LET s == SocketId(connections + 1)
       IN  /\ clients' = MapSet(clients, s, NewClient)
           /\ outbox' = MapSet(outbox, s,
                               <<Request("join-room", NoStrokeId, Origin, 0)>>)
           /\ inbox' = MapSet(inbox, s, <<>>)
    /\ UNCHANGED <<provisional, own, closed, clicks, callerVars>>

\* The server takes the next request of socket s: join-room.
ServeJoinRoom(s) ==
    /\ Pends(s, "join-room")
    /\ \E random \in RandomIndex(RoomManager, Head(outbox[s]).roomId) :
           JoinRoom(s, Head(outbox[s]).roomId, random)
    /\ Served(s)
    /\ UNCHANGED <<clients, provisional, own, closed, clicks, callerVars>>

\* ... stroke-start; the id minted is noted for the local stroke it was sent
\* for.
ServeStrokeStart(s) ==
    /\ Pends(s, "stroke-start")
    /\ OnStrokeStart(s, Head(outbox[s]).roomId, Head(outbox[s]).point)
    /\ Served(s)
    /\ own' = IF last'.ok
              THEN [own EXCEPT ![Head(outbox[s]).tag] = last'.strokeId]
              ELSE own
    /\ UNCHANGED <<clients, provisional, closed, clicks, callerVars>>

\* ... stroke-update.
ServeStrokeUpdate(s) ==
    /\ Pends(s, "stroke-update")
    /\ OnStrokeUpdate(s, Head(outbox[s]).roomId, Head(outbox[s]).strokeId,
                      Head(outbox[s]).point)
    /\ Served(s)
    /\ UNCHANGED <<clients, provisional, own, closed, clicks, callerVars>>

\* ... stroke-end.
ServeStrokeEnd(s) ==
    /\ Pends(s, "stroke-end")
    /\ OnStrokeEnd(s, Head(outbox[s]).roomId, Head(outbox[s]).strokeId)
    /\ Served(s)
    /\ UNCHANGED <<clients, provisional, own, closed, clicks, callerVars>>

\* ... undo.
ServeUndo(s) ==
    /\ Pends(s, "undo")
    /\ OnUndo(s, Head(outbox[s]).roomId)
    /\ Served(s)
    /\ UNCHANGED <<clients, provisional, own, closed, clicks, callerVars>>

\* ... redo.
ServeRedo(s) ==
    /\ Pends(s, "redo")
    /\ OnRedo(s, Head(outbox[s]).roomId)
    /\ Served(s)
    /\ UNCHANGED <<clients, provisional, own, closed, clicks, callerVars>>

\* The handler the client runs for one event.
Handle(client, e) ==
    CASE e.event = "user-info" -> RecvUserInfo(client, e.data)
      [] e.event = "full-state-sync" -> RecvFullStateSync(client, e.data)
      [] e.event = "stroke-start" -> RecvStrokeStart(client, e.data)
      [] e.event = "stroke-update" -> RecvStrokeUpdate(client, e.data)
      [] e.event = "stroke-end" -> RecvStrokeEnd(client, e.data)
      [] e.event = "undo" -> RecvUndo(client, e.data)
      [] e.event = "redo" -> RecvRedo(client, e.data)

\* A step of a client leaves the server as it is; the events of the handler
\* that ran last are in the channels by then.
ClientStep ==
    /\ emitted' = <<>>
    /\ last' = [NoRequest EXCEPT !.op = "client"]
    /\ UNCHANGED <<registryVars, connections, sockets>>
    /\ UNCHANGED storeVars

\* Client c receives the next event sent to it.
Receive(c) ==
    /\ inbox[c] # <<>>
    /\ clients' = [clients EXCEPT ![c] = Handle(@, Head(inbox[c]))]
    /\ inbox' = [inbox EXCEPT ![c] = Tail(@)]
    /\ UNCHANGED <<outbox, provisional, own, closed, clicks, callerVars>>
    /\ ClientStep

\* handleMouseDown: startStroke, and canvasManager.onStrokeStart sends the
\* stroke-start, which carries no id.
MouseDown(c, point) ==
    /\ provisional < MaxStrokes
    /\ LET localId == LocalId(provisional + 1)
       IN  /\ clients' = [clients EXCEPT ![c] = startStroke(@, point, localId)]
           /\ outbox' = [outbox EXCEPT ![c] =
                            Append(@, Request("stroke-start", NoStrokeId,
                                              point, localId))]
           /\ own' = MapSet(own, localId, NoStrokeId)
    /\ provisional' = provisional + 1
    /\ UNCHANGED <<inbox, closed, clicks, callerVars>>
    /\ ClientStep

\* handleMouseMove while drawing: continueStroke, and
\* canvasManager.onStrokeUpdate sends the point under the mapped id.
MouseMove(c, point) ==
    /\ clients[c].isDrawing
    /\ clients[c].currentPath # <<>>
    /\ Len(clients[c].currentPath[1].path) < MaxPath
    /\ clients' = [clients EXCEPT ![c] = continueStroke(@, point)]
    /\ outbox' = [outbox EXCEPT ![c] =
                     Append(@, Request("stroke-update",
                                       MappedId(clients[c], clients[c].currentPath[1]),
                                       point, 0))]
    /\ UNCHANGED <<inbox, provisional, own, closed, clicks, callerVars>>
    /\ ClientStep

\* handleMouseUp: endStroke, and canvasManager.onStrokeEnd sends the
\* stroke-end under the mapped id.
MouseUp(c) ==
    /\ clients[c].isDrawing
    /\ clients[c].currentPath # <<>>
    /\ clients' = [clients EXCEPT ![c] = endStroke(@)]
    /\ outbox' = [outbox EXCEPT ![c] =
                     Append(@, Request("stroke-end",
                                       MappedId(clients[c], clients[c].currentPath[1]),
                                       Origin, 0))]
    /\ closed' = closed \cup {clients[c].currentPath[1].tag}
    /\ UNCHANGED <<inbox, provisional, own, clicks, callerVars>>
    /\ ClientStep

\* undoBtn / redoBtn click (or the keyboard shortcut): the request is sent,
\* nothing is done locally.
Click(c, event) ==
    /\ clicks < MaxClicks
    /\ clicks' = clicks + 1
    /\ outbox' = [outbox EXCEPT ![c] =
                     Append(@, Request(event, NoStrokeId, Origin, 0))]
    /\ UNCHANGED <<clients, inbox, provisional, own, closed, callerVars>>
    /\ ClientStep

\* The server handles the next request of some connection; a client receives
\* the next event sent to it; a user presses, moves and releases the pointer
\* (one button: a press only while not drawing), drawing points of P.
NextClients(limit, P) ==
    \/ ClientConnect(limit)
    \/ \E s \in DOMAIN sockets : ServeJoinRoom(s)
    \/ \E s \in DOMAIN sockets : ServeStrokeStart(s)
    \/ \E s \in DOMAIN sockets : ServeStrokeUpdate(s)
    \/ \E s \in DOMAIN sockets : ServeStrokeEnd(s)
    \/ \E c \in DOMAIN clients : Receive(c)
    \/ \E c \in DOMAIN clients, point \in P :
           ~clients[c].isDrawing /\ MouseDown(c, point)
    \/ \E c \in DOMAIN clients, point \in P : MouseMove(c, point)
    \/ \E c \in DOMAIN clients : MouseUp(c)

\* One client and the server: the ids the client's strokes and requests
\* carry.
NextSolo == NextClients(1, Points)

SpecSolo == Init /\ [][NextSolo]_vars

\* One client that draws one point value, and the server: the order in
\* which requests are handled and echoes received.
NextEcho == NextClients(1, {Origin})

SpecEcho == Init /\ [][NextEcho]_vars

\* Every connection the server will accept is there, and its client has
\* received its user id and the full state of the room.
AllJoined(limit) ==
    /\ connections = limit
    /\ \A c \in DOMAIN clients :
           /\ clients[c].currentUserId # "null"
           /\ \A i \in 1..Len(inbox[c]) : inbox[c][i].event # "full-state-sync"

\* Two clients in one room, which both draw once both are in.
NextDuo ==
    \/ ClientConnect(MaxConnections)
    \/ \E s \in DOMAIN sockets : ServeJoinRoom(s)
    \/ \E s \in DOMAIN sockets : ServeStrokeStart(s)
    \/ \E s \in DOMAIN sockets : ServeStrokeUpdate(s)
    \/ \E s \in DOMAIN sockets : ServeStrokeEnd(s)
    \/ \E c \in DOMAIN clients : Receive(c)
    \/ \E c \in DOMAIN clients :
           /\ AllJoined(MaxConnections)
           /\ ~clients[c].isDrawing
           /\ MouseDown(c, Origin)
    \/ \E c \in DOMAIN clients : MouseMove(c, Origin)
    \/ \E c \in DOMAIN clients : MouseUp(c)

\* The client of the connection accepted first.
Drawer == SocketId(1)

\* Two clients in one room, once both are in: the first draws, undoes and
\* redoes, the other looks on.
NextViewer ==
    \/ ClientConnect(MaxConnections)
    \/ \E s \in DOMAIN sockets : ServeJoinRoom(s)
    \/ \E s \in DOMAIN sockets : ServeStrokeStart(s)
    \/ \E s \in DOMAIN sockets : ServeStrokeUpdate(s)
    \/ \E s \in DOMAIN sockets : ServeStrokeEnd(s)
    \/ \E s \in DOMAIN sockets : ServeUndo(s)
    \/ \E s \in DOMAIN sockets : ServeRedo(s)
    \/ \E c \in DOMAIN clients : Receive(c)
    \/ /\ AllJoined(MaxConnections)
       /\ ~clients[Drawer].isDrawing
       /\ MouseDown(Drawer, Origin)
    \/ \E c \in DOMAIN clients : MouseMove(c, Origin)
    \/ \E c \in DOMAIN clients : MouseUp(c)
    \/ \E event \in {"undo", "redo"} :
           /\ AllJoined(MaxConnections)
           /\ Click(Drawer, event)

SpecViewer == Init /\ [][NextViewer]_vars

\* The client of the connection accepted second.
Latecomer == SocketId(2)

\* Client c has received its user id and the full state of the room.
Joined(c) ==
    /\ c \in DOMAIN clients
    /\ clients[c].currentUserId # "null"
    /\ \A i \in 1..Len(inbox[c]) : inbox[c][i].event # "full-state-sync"

\* The server holds a stroke of the first client whose stroke-end it has not
\* handled: the stroke was minted, and the client has not released the button
\* or its stroke-end is still on its way.
StrokeOpenOnServer ==
    \E t \in DOMAIN own :
        /\ own[t] # NoStrokeId
        /\ \/ t \notin closed
           \/ \E i \in 1..Len(outbox[Drawer]) :
                  outbox[Drawer][i].event = "stroke-end"

\* A client that joins in the middle of a stroke: the first client draws one
\* stroke, and the server handles the join-room of the second while that
\* stroke is open.
NextLate ==
    \/ ClientConnect(MaxConnections)
    \/ \E s \in DOMAIN sockets \cap {Drawer} : ServeJoinRoom(s)
    \/ \E s \in DOMAIN sockets \cap {Latecomer} :
           StrokeOpenOnServer /\ ServeJoinRoom(s)
    \/ \E s \in DOMAIN sockets : ServeStrokeStart(s)
    \/ \E s \in DOMAIN sockets : ServeStrokeUpdate(s)
    \/ \E s \in DOMAIN sockets : ServeStrokeEnd(s)
    \/ \E c \in DOMAIN clients : Receive(c)
    \/ /\ Joined(Drawer)
       /\ provisional = 0
       /\ MouseDown(Drawer, Origin)
    \/ \E c \in DOMAIN clients, point \in Points : MouseMove(c, point)
    \/ \E c \in DOMAIN clients : MouseUp(c)

SpecLate == Init /\ [][NextLate]_vars

SpecDuo == Init /\ [][NextDuo]_vars

\* The server's event loop handles the next request of connection s.
Serve(s) ==
    /\ s \in DOMAIN sockets
    /\ \/ ServeJoinRoom(s)
       \/ ServeStrokeStart(s)
       \/ ServeStrokeUpdate(s)
       \/ ServeStrokeEnd(s)

\* The event loop of client c handles the next event sent to it.
Deliver(c) == c \in DOMAIN clients /\ Receive(c)

\* The connections a run can have.
SocketIds == {SocketId(n) : n \in 1..MaxConnections}

\* SpecDuo where no request and no event waits forever: socket.io delivers
\* what was sent over a connection in order, and the event loops of the
\* server and of each client run every handler that is due.  No user is
\* obliged to press, move or release.
SpecDuoFair ==
    /\ Init
    /\ [][NextDuo]_vars
    /\ \A s \in SocketIds : WF_vars(Serve(s)) /\ WF_vars(Deliver(s))

\* ------------------------------------------------------------ properties
\* The places of a room that hold a stroke: index i of the active timeline,
\* or index i of user u's undo stack.
Slots(r) ==
    {<<"timeline", "-", i>> : i \in 1..Len(Timeline(roomStates, r))}
    \cup UNION {{<<"undo", u, i>> : i \in 1..Len(UndoStack(roomStates, r, u))}
                : u \in Users}

StrokeAt(r, slot) ==
    IF slot[1] = "timeline"
    THEN Timeline(roomStates, r)[slot[3]]
    ELSE UndoStack(roomStates, r, slot[2])[slot[3]]

\* C1: in every reachable state, a stroke id occupies at most one place of a
\* room: two different places (two timeline indices, a timeline index and an
\* undo-stack index, indices of two users' undo stacks, two indices of one
\* stack) never hold the same id.
C1_StrokeInOnePlace ==
    \A r \in Rooms : \A a \in Slots(r), b \in Slots(r) :
        a # b => StrokeAt(r, a).id # StrokeAt(r, b).id

\* C1 witness: a redo has just put a stroke back on the timeline while the
\* other user still holds an undone stroke.
C1_Witness ==
    /\ last.op = "redo"
    /\ last.ok
    /\ \E u \in Users \ {last.userId} : UndoStack(roomStates, last.roomId, u) # <<>>
    /\ Timeline(roomStates, last.roomId) # <<>>

\* C2: stroke ids are never reused.  A stroke-start returns a stroke whose id
\* is greater than every id minted before (so it is none of them, stored,
\* undone or dropped) and that stroke is the one appended; a redo mints
\* nothing and returns a stroke whose id is that of an undone stroke.
C2_IdsNeverReused ==
    [][/\ last'.op = "stroke-start" =>
            /\ \A m \in minted : last'.ret[1].id > m
            /\ last'.ret[1].id \notin StoredIds(roomStates)
            /\ minted' = minted \cup {last'.ret[1].id}
            /\ Timeline(roomStates', last'.roomId)
                   = Append(Timeline(roomStates, last'.roomId), last'.ret[1])
       /\ last'.op # "stroke-start" =>
            /\ strokeIdCounter' = strokeIdCounter
            /\ minted' = minted
       /\ (last'.op = "redo" /\ last'.ok) =>
            /\ last'.ret[1].id \in {undone[i].id : i \in 1..Len(undone)}
            /\ last'.ret[1].id \in minted
      ]_vars

\* C2 witness: a stroke was minted in room r2 while the stroke minted before
\* it lies undone in room r1.
C2_Witness ==
    /\ last.op = "stroke-start"
    /\ last.roomId = "r2"
    /\ UndoStack(roomStates, "r1", last.userId) # <<>>

\* C3: a stroke-start by user U in room R leaves U's undo stack in R empty
\* and every other undo stack as it was; a redo by U in R right after it
\* returns null and changes nothing.
C3_NewStrokeClearsUndo ==
    [][last'.op = "stroke-start" =>
          /\ UndoStack(roomStates', last'.roomId, last'.userId) = <<>>
          /\ \A r \in Rooms, u \in Users :
                 <<r, u>> # <<last'.roomId, last'.userId>> =>
                     UndoStack(roomStates', r, u) = UndoStack(roomStates, r, u)
          /\ redo(roomStates', last'.roomId, last'.userId).ret = <<>>
          /\ redo(roomStates', last'.roomId, last'.userId).roomStates = roomStates'
      ]_vars

\* C3 witness: the stroke-start cleared an undo stack that held a stroke.
C3_Witness ==
    /\ last.op = "stroke-start"
    /\ last.cleared > 0
    /\ UndoStack(roomStates, last.roomId, last.userId) = <<>>

\* The entry of the undo history for stroke id.
UndoneEntry(id) == undone[CHOOSE i \in 1..Len(undone) : undone[i].id = id]

\* The strokes of a sequence that userId does not own, in their order.
NotOwnedBy(strokes, userId) ==
    LET Other(s) == s.userId # userId
    IN  SelectSeq(strokes, Other)

\* C4: a redo by U returns the stroke exactly as U's undo returned it (same
\* id, owner, attributes and point sequence) and leaves it as the last
\* element of the room's active timeline, whatever was added to the timeline
\* between the undo and the redo.
C4_UndoRedoRestores ==
    [][(last'.op = "redo" /\ last'.ok) =>
          /\ last'.ret[1].id \in {undone[i].id : i \in 1..Len(undone)}
          /\ last'.ret[1] = UndoneEntry(last'.ret[1].id).stroke
          /\ UndoneEntry(last'.ret[1].id).userId = last'.userId
          /\ UndoneEntry(last'.ret[1].id).roomId = last'.roomId
          /\ Len(Timeline(roomStates', last'.roomId)) > 0
          /\ Timeline(roomStates', last'.roomId)
                 [Len(Timeline(roomStates', last'.roomId))] = last'.ret[1]
      ]_vars

\* C4 witness: the redo put back a stroke that was undone before another
\* user's stroke was minted, and that other stroke lies just below it.
C4_Witness ==
    /\ last.op = "redo"
    /\ last.since > 0
    /\ Len(Timeline(roomStates, last.roomId)) >= 2
    /\ LET tl == Timeline(roomStates, last.roomId)
       IN  /\ tl[Len(tl)] = last.ret[1]
           /\ tl[Len(tl) - 1].userId # last.userId
           /\ tl[Len(tl) - 1].id > last.ret[1].id

UndoOrder(log, R, U) ==
    LET Mine(e) == e.roomId = R /\ e.userId = U
        mine == SelectSeq(log, Mine)
    IN  [i \in 1..Len(mine) |-> mine[i].id]

\* C7: redo is LIFO.  A redo by U returns the stroke U undid most recently
\* among those not yet redone, so successive redos return the strokes in the
\* reverse order of their undos; the redone stroke is appended at the end of
\* the timeline as it is at the time of the redo.
C7_RedoIsLifo ==
    [][(last'.op = "redo" /\ last'.ok) =>
          LET order == UndoOrder(undone, last'.roomId, last'.userId)
          IN  /\ Len(order) > 0
              /\ last'.ret[1].id = order[Len(order)]
              /\ UndoOrder(undone', last'.roomId, last'.userId)
                     = SubSeq(order, 1, Len(order) - 1)
              /\ Timeline(roomStates', last'.roomId)
                     = Append(Timeline(roomStates, last'.roomId), last'.ret[1])
      ]_vars

\* C7 witness: the redo took the top of an undo stack that held two strokes
\* and the older undone stroke is still waiting in it.
C7_Witness ==
    /\ last.op = "redo"
    /\ last.depth >= 2
    /\ UndoStack(roomStates, last.roomId, last.userId) # <<>>

\* C8: a stored stroke holds exactly the points accepted for it, in the
\* order they were sent: the point of its stroke-start followed by the points
\* of the N stroke-updates answered true, 1+N points in all.
C8_PathIsWhatWasSent ==
    \A r \in Rooms : \A slot \in Slots(r) :
        LET s == StrokeAt(r, slot)
        IN  /\ s.id \in DOMAIN sent
            /\ Len(s.path) = Len(sent[s.id])
            /\ Len(s.path) >= 1
            /\ s.path = sent[s.id]

\* C8 witness: an update was just accepted for a stroke that now holds two
\* different points.
C8_Witness ==
    /\ last.op = "stroke-update"
    /\ last.ok
    /\ \E i \in 1..Len(Timeline(roomStates, last.roomId)) :
           LET s == Timeline(roomStates, last.roomId)[i]
           IN  /\ s.id = last.strokeId
               /\ Len(s.path) = 2
               /\ s.path[1] # s.path[2]

\* C9: after a stroke-end for an active stroke, getFullState of the room holds
\* that stroke only if it has at least 2 points (a shorter one was removed).
C9_ShortStrokeDiscarded ==
    (last.op = "stroke-end" /\ last.ok) =>
        LET full == getFullState(roomStates, last.roomId).strokes
        IN  \A i \in 1..Len(full) :
                full[i].id = last.strokeId => Len(full[i].path) >= 2

\* C10: once the stroke-end of an active stroke was processed, no step
\* changes the point sequence of that stroke while it stays on the timeline.
C10_NoAppendAfterEnd ==
    [][\A r \in Rooms :
           \A i \in 1..Len(Timeline(roomStates, r)),
              j \in 1..Len(Timeline(roomStates', r)) :
               (/\ Timeline(roomStates, r)[i].id \in ended
                /\ Timeline(roomStates', r)[j].id = Timeline(roomStates, r)[i].id)
                   => Timeline(roomStates', r)[j].path = Timeline(roomStates, r)[i].path
      ]_vars

\* C11: an undo removes from the timeline only a stroke whose stroke-end was
\* processed: the stroke a successful undo returned was ended before.
C11_UndoOnlyClosed ==
    (last.op = "undo" /\ last.ok) => last.strokeId \in ended

\* C12: in every room that has at most 10 members (the size of the palette),
\* no two members hold the same color, whatever joins and leaves came before.
C12_DistinctColors ==
    \A r \in DOMAIN rooms :
        LET members == getRoomUsers(RoomManager, r)
        IN  Len(members) <= Len(USER_COLORS) =>
                \A i \in 1..Len(members), j \in 1..Len(members) :
                    i # j => members[i].color # members[j].color

\* The events of the last handler that carry this name.
Sent(event) ==
    LET Named(e) == e.event = event
    IN  SelectSeq(emitted, Named)

\* The events of the last handler that reached at least one connection.
Delivered ==
    LET Reached(e) == e.to # {}
    IN  SelectSeq(emitted, Reached)

\* The open sockets whose user carries this user id.
SocketsOf(userId) ==
    {s \in DOMAIN sockets : s \in DOMAIN users /\ users[s].userId = userId}

\* C13: a room without members has no timeline state, and a connection that
\* joins a room in which it is the only member (the room was empty before)
\* is sent a full-state-sync without strokes.
C13_EmptyRoomForgotten ==
    /\ \A r \in DOMAIN roomStates : r \in DOMAIN rooms
    /\ (last.op = "join-room" /\ last.ok
            /\ getRoomUserCount(RoomManager, last.roomId) = 1) =>
           /\ Len(Sent("full-state-sync")) = 1
           /\ Sent("full-state-sync")[1].data.strokes = <<>>

\* C14: a join-room from a connection that already has a user in that room
\* answers with the same user id and color and leaves the users, the room's
\* members and the room's color pool as they were.
C14_JoinIdempotent ==
    [][\A s \in DOMAIN sockets :
           (/\ last'.op = "join-room" /\ last'.ok
            /\ Sent("user-info")'[1].to = {s}
            /\ s \in DOMAIN users
            /\ users[s].roomId = last'.roomId) =>
               /\ Sent("user-info")'[1].data
                      = [userId |-> users[s].userId, color |-> users[s].color]
               /\ users' = users
               /\ rooms' = rooms
               /\ roomColors' = roomColors
      ]_vars

\* C15: a stroke-update or stroke-end that carries a room id and a stroke id,
\* but whose stroke is not on the timeline of the room it names, has no event
\* delivered to any connection and changes no timeline and no undo stack.
C15_UnknownStrokeSilent ==
    [][(/\ last'.op \in {"stroke-update", "stroke-end"}
        /\ ~last'.ok
        /\ ~last'.malformed) =>
           /\ Delivered' = <<>>
           /\ roomStates' = roomStates
      ]_vars

\* C16: an undo request of a registered connection whose user owns no stroke
\* on the timeline of the room, and a redo request of one whose user has an
\* empty undo stack there, return null, send no event and leave every
\* timeline and undo stack as it was.
C16_NothingToUndoOrRedo ==
    [][\A s \in DOMAIN sockets, r \in Rooms :
           s \in DOMAIN users =>
               /\ (/\ \A i \in 1..Len(Timeline(roomStates, r)) :
                          Timeline(roomStates, r)[i].userId # users[s].userId
                   /\ OnUndo(s, r)) =>
                      /\ undo(roomStates, r, users[s].userId).ret = <<>>
                      /\ ~last'.ok
                      /\ emitted' = <<>>
                      /\ roomStates' = roomStates
               /\ (/\ UndoStack(roomStates, r, users[s].userId) = <<>>
                   /\ OnRedo(s, r)) =>
                      /\ redo(roomStates, r, users[s].userId).ret = <<>>
                      /\ ~last'.ok
                      /\ emitted' = <<>>
                      /\ roomStates' = roomStates
      ]_vars

\* C16 witness: an undo request came to nothing and sent nothing in a room
\* whose timeline holds a stroke, every open socket being registered (so the
\* requester was, and the stroke is another user's).
C16_Witness ==
    /\ last.op = "undo"
    /\ ~last.ok
    /\ ~last.malformed
    /\ emitted = <<>>
    /\ DOMAIN sockets # {}
    /\ \A s \in DOMAIN sockets : s \in DOMAIN users
    /\ Timeline(roomStates, "r1") # <<>>

\* C17: a request that lacks its room id (or, for stroke-update and
\* stroke-end, its stroke id) changes nothing in the registry, the socket.io
\* rooms, the timelines and the undo stacks, and no event is delivered to
\* any connection.
C17_MalformedSilent ==
    [][last'.malformed =>
           /\ Delivered' = <<>>
           /\ UNCHANGED <<registryVars, sockets, roomStates, strokeIdCounter>>
      ]_vars

\* The current members of a room: the open connections whose user is
\* registered in it.
Members(roomId) ==
    {s \in DOMAIN sockets : s \in DOMAIN users /\ users[s].roomId = roomId}

\* C18: an accepted stroke-start sends exactly one stroke-start event, which
\* carries the minted stroke id and the acting user's id and is delivered to
\* the originator and to every member of the room the acting user is in.
C18_StrokeStartToOwnRoom ==
    (last.op = "stroke-start" /\ last.ok) =>
        /\ Len(emitted) = 1
        /\ emitted[1].event = "stroke-start"
        /\ emitted[1].data.id = last.strokeId
        /\ emitted[1].data.userId = last.userId
        /\ \A s \in SocketsOf(last.userId) :
               /\ s \in emitted[1].to
               /\ Members(users[s].roomId) \subseteq emitted[1].to

\* C19: a successful undo sends one undo event {userId, strokeId}, a
\* successful redo one redo event {userId, stroke}, delivered to every member
\* of the room whose timeline changed and to the actor.
C19_UndoRedoToWholeRoom ==
    (last.op \in {"undo", "redo"} /\ last.ok) =>
        /\ Len(emitted) = 1
        /\ emitted[1].event = last.op
        /\ emitted[1].data.userId = last.userId
        /\ last.op = "undo" => emitted[1].data.strokeId = last.strokeId
        /\ last.op = "redo" => emitted[1].data.stroke = last.ret[1]
        /\ Members(last.roomId) \subseteq emitted[1].to
        /\ SocketsOf(last.userId) \subseteq emitted[1].to

\* C20: a cursor-move of a registered connection is delivered to exactly the
\* other members of the actor's room, and the user-joined of a join-room to
\* exactly the other members of the joined room; neither reaches the
\* connection that caused it; a cursor-move that was not accepted (no room
\* id, or a connection that has not joined) sends nothing.
C20_RoomExclusive ==
    /\ (last.op = "cursor-move" /\ last.ok) =>
           /\ Len(emitted) = 1
           /\ emitted[1].event = "cursor-move"
           /\ \A s \in SocketsOf(last.userId) :
                  emitted[1].to = Members(users[s].roomId) \ {s}
    /\ (last.op = "cursor-move" /\ ~last.ok) => emitted = <<>>
    /\ (last.op = "join-room" /\ last.ok) =>
           /\ Len(Sent("user-joined")) = 1
           /\ \A s \in SocketsOf(last.userId) :
                  Sent("user-joined")[1].to = Members(last.roomId) \ {s}

\* The connection that sent the join-room handled last: the one its user-info
\* went to.
Joiner == CHOOSE s \in Sent("user-info")[1].to : TRUE

\* {userId, color} of the members of a room other than one connection.
OtherMembers(roomId, socketId) ==
    {[userId |-> users[s].userId, color |-> users[s].color] :
         s \in Members(roomId) \ {socketId}}

\* C21: an accepted join-room sends user-info, existing-users and
\* full-state-sync once each, to the joining connection and to no other;
\* existing-users lists exactly the other current members of the joined room,
\* each once and never the joiner; full-state-sync carries the active
\* timeline of the room, in timeline order.
C21_JoinUnicasts ==
    (last.op = "join-room" /\ last.ok) =>
        /\ Len(Sent("user-info")) = 1
        /\ Len(Sent("existing-users")) = 1
        /\ Len(Sent("full-state-sync")) = 1
        /\ Sent("user-info")[1].to = SocketsOf(last.userId)
        /\ Cardinality(Sent("user-info")[1].to) = 1
        /\ Sent("existing-users")[1].to = {Joiner}
        /\ Sent("full-state-sync")[1].to = {Joiner}
        /\ LET list == Sent("existing-users")[1].data
           IN  /\ {list[i] : i \in 1..Len(list)}
                      = OtherMembers(last.roomId, Joiner)
               /\ \A i \in 1..Len(list), j \in 1..Len(list) :
                      i # j => list[i].userId # list[j].userId
               /\ \A i \in 1..Len(list) : list[i].userId # last.userId
        /\ Sent("full-state-sync")[1].data.roomId = last.roomId
        /\ Sent("full-state-sync")[1].data.strokes
               = Timeline(roomStates, last.roomId)

\* C22: a disconnect of a registered connection takes its user out of the
\* registry and out of the member set of its room, and its user-left goes to
\* exactly the connections that remain members of that room; a disconnect of
\* a connection that never joined leaves the registry and the timelines as
\* they were and sends no event.
C22_DisconnectLeaves ==
    [][\A s \in DOMAIN sockets :
           Disconnect(s) =>
               IF s \in DOMAIN users
               THEN /\ s \notin DOMAIN users'
                    /\ users[s].roomId \in DOMAIN rooms' =>
                           \A i \in 1..Len(rooms'[users[s].roomId]) :
                               rooms'[users[s].roomId][i] # s
                    /\ \A t \in DOMAIN users' : users'[t] = users[t]
                    /\ Len(emitted') = 1
                    /\ emitted'[1].event = "user-left"
                    /\ emitted'[1].data.userId = users[s].userId
                    /\ emitted'[1].to
                           = {t \in DOMAIN sockets' :
                                  /\ t \in DOMAIN users'
                                  /\ users'[t].roomId = users[s].roomId}
               ELSE /\ emitted' = <<>>
                    /\ UNCHANGED registryVars
                    /\ UNCHANGED storeVars
      ]_vars

\* The events of this name still on their way to client c that name stroke id.
Pending_(c, event, id) ==
    {i \in 1..Len(inbox[c]) :
         inbox[c][i].event = event /\ inbox[c][i].data.strokeId = id}

\* C23: while a stroke lies undone on the server (it was not redone) and the
\* undo event for it has reached every client, no client's stroke list holds
\* a stroke with its id, whenever the undo came: while the stroke was open,
\* before its originator received its id, or after it was closed.
C23_UndoneStrokeGone ==
    \A id \in UndoneIds(roomStates) :
        (\A c \in DOMAIN clients : Pending_(c, "undo", id) = {})
            => \A c \in DOMAIN clients : id \notin Ids(clients[c].strokes)

\* Every request has been handled and every event received.
Quiet ==
    \A c \in DOMAIN clients : outbox[c] = <<>> /\ inbox[c] = <<>>

\* The strokes of client c's list that c drew itself and has ended.
OwnEnded(c) ==
    {i \in 1..Len(clients[c].strokes) : clients[c].strokes[i].tag \in closed}

\* C24: once the originator has ended a stroke and all its messages have
\* been processed, the server's point sequence of the stroke (the one minted
\* for its stroke-start) equals the point sequence the originator holds,
\* whether the points were drawn before or after the echo arrived.
C24_ServerPathIsLocalPath ==
    Quiet =>
        \A c \in DOMAIN clients : \A i \in OwnEnded(c) :
            LET stroke == clients[c].strokes[i]
                timeline == Timeline(roomStates, currentRoomId)
                index == FindIndex(timeline, own[stroke.tag])
            IN  index # 0 /\ timeline[index].path = stroke.path

\* The ids of a sequence of strokes, in order, that are also in the set ids.
RECURSIVE OrderOf(_, _)
OrderOf(strokes, ids) ==
    IF strokes = <<>>
    THEN <<>>
    ELSE IF Head(strokes).id \in ids
         THEN <<Head(strokes).id>> \o OrderOf(Tail(strokes), ids)
         ELSE OrderOf(Tail(strokes), ids)

\* No client holds an open stroke, local or remote.
NoOpenStroke ==
    \A c \in DOMAIN clients :
        clients[c].currentPath = <<>> /\ clients[c].activeRemoteStrokes = <<>>

\* C25: when no stroke is open and all messages are delivered, the strokes a
\* client's list and the server's active timeline have in common come in the
\* same order in both, also when two users' strokes overlapped in time.
C25_ClientOrderIsServerOrder ==
    (Quiet /\ NoOpenStroke) =>
        \A c \in DOMAIN clients :
            LET timeline == Timeline(roomStates, currentRoomId)
                common == Ids(clients[c].strokes) \cap Ids(timeline)
            IN  OrderOf(clients[c].strokes, common) = OrderOf(timeline, common)

\* The local strokes a run can have, by the id they were created with.
LocalIds == {LocalId(n) : n \in 1..MaxStrokes}

\* Client c holds the stroke minted for local stroke t as an open remote
\* stroke.
OpenAt(c, t) ==
    /\ t \in DOMAIN own
    /\ c \in DOMAIN clients
    /\ own[t] \in DOMAIN clients[c].activeRemoteStrokes

\* C26: a stroke its originator has ended does not stay in the open (active
\* remote) set of another client forever: whenever it is open there after
\* the originator ended it, it leaves the open set later.
C26_EndedStrokeLeavesOpenSet ==
    \A t \in LocalIds, c \in SocketIds :
        (t \in closed /\ OpenAt(c, t)) ~> ~OpenAt(c, t)

\* C27: the result of getFullState is a copy: whatever is appended, undone
\* or redone after it was returned, the caller reads from it the strokes and
\* point sequences it read when it was returned; and getFullState changes
\* nothing of the store.
C27_SnapshotIsCopy ==
    [][/\ (held # <<>> => ReadState(roomStates, held[1]) = heldAt)'
       /\ held' # held => UNCHANGED storeVars
      ]_vars

\* A held result with a stroke that has grown since and a stroke that has
\* been undone since.
C27_Witness ==
    /\ held # <<>>
    /\ \E i \in 1..Len(heldAt) :
           \E stroke \in StrokeObjects(roomStates, held[1].roomId) :
               stroke.id = heldAt[i].id /\ Len(stroke.path) > Len(heldAt[i].path)
    /\ \E i \in 1..Len(heldAt) : heldAt[i].id \in UndoneIds(roomStates)

\* The records of the strokes client c drew itself: the open one and the
\* kept ones.
LocalRecords(c) ==
    {clients[c].currentPath[i] : i \in 1..Len(clients[c].currentPath)}
        \cup {clients[c].strokes[i] : i \in OwnEnded(c)}

\* C28: reconciliation binds each local stroke to its own durable id: a
\* local stroke's record whose id was rewritten holds the id the server
\* minted for that stroke's stroke-start, and strokeIdMap maps each
\* provisional id to the id minted for the stroke created with it.
C28_BoundToOwnId ==
    \A c \in DOMAIN clients :
        /\ \A stroke \in LocalRecords(c) :
               stroke.id # stroke.tag => stroke.id = own[stroke.tag]
        /\ \A localId \in DOMAIN clients[c].strokeIdMap :
               localId \in DOMAIN own
                   => clients[c].strokeIdMap[localId] = own[localId]

\* Client c has received the echo of the stroke-start of local stroke t: the
\* server has minted an id for it and the event that carries the id is no
\* longer on its way.
EchoReceived(c, t) ==
    /\ own[t] # NoStrokeId
    /\ \A i \in 1..Len(inbox[c]) :
           inbox[c][i].event = "stroke-start" => inbox[c][i].data.id # own[t]

\* The request client c sends in this step, if it sends one (<<>> if not).
SentNow(c) ==
    IF Len(outbox'[c]) = Len(outbox[c]) + 1
    THEN <<outbox'[c][Len(outbox'[c])]>>
    ELSE <<>>

\* C29: once the originator has received the echo of its open stroke's
\* stroke-start, every stroke-update and stroke-end it sends for that stroke
\* carries the id minted for it, never a provisional one.
C29_DurableIdOnceKnown ==
    [][\A c \in DOMAIN clients :
           \A i \in 1..Len(SentNow(c)) :
               LET request == SentNow(c)[i]
                   stroke == clients[c].currentPath[1]
               IN  (/\ request.event \in {"stroke-update", "stroke-end"}
                    /\ EchoReceived(c, stroke.tag))
                       => request.strokeId = own[stroke.tag]
      ]_vars

\* A stroke-update or stroke-end is on its way that carries the id minted
\* for the second local stroke, whose record had first been given the id of
\* the first.
C29_Witness ==
    \E c \in DOMAIN clients :
        /\ LocalId(2) \in DOMAIN own
        /\ \E i \in 1..Len(outbox[c]) :
               /\ outbox[c][i].event \in {"stroke-update", "stroke-end"}
               /\ outbox[c][i].strokeId = own[LocalId(2)]
               /\ own[LocalId(2)] # NoStrokeId
        /\ \E localId \in DOMAIN clients[c].strokeIdMap :
               clients[c].strokeIdMap[localId] = own[LocalId(2)] /\ localId > 0

\* C30: the entry of strokeIdMap for a stroke is removed when the stroke
\* closes: strokeIdMap is empty whenever the client has no open local stroke.
C30_MapEmptyWhenIdle ==
    \A c \in DOMAIN clients :
        clients[c].currentPath = <<>> => clients[c].strokeIdMap = <<>>

\* Sequence a is the beginning of sequence b.
IsPrefix(a, b) ==
    Len(a) <= Len(b) /\ \A i \in 1..Len(a) : a[i] = b[i]

\* C31: a stroke the store holds keeps its id, owner, type, color and size,
\* and its point sequence only grows at the end: over every step, a stroke
\* held before and after (on the timeline or in an undo stack, before or
\* after) has the same fields, and its earlier path is a prefix of the later.
C31_StrokeOnlyGrows ==
    [][\A r \in Rooms :
           \A before \in StrokeObjects(roomStates, r) :
               \A after \in StrokeObjects(roomStates', r) :
                   before.id = after.id
                       => /\ after.userId = before.userId
                          /\ after.type = before.type
                          /\ after.color = before.color
                          /\ after.size = before.size
                          /\ IsPrefix(before.path, after.path)
      ]_vars

\* A stroke that grew to two different points, was undone and has just been
\* redone.
C31_Witness ==
    /\ last.op = "redo"
    /\ last.ok
    /\ Len(last.ret[1].path) = 2
    /\ last.ret[1].path[1] # last.ret[1].path[2]

\* The timeline state the store holds under a room key (<<>> when none).
RoomStateOf(rs, roomId) ==
    IF roomId \in DOMAIN rs THEN <<rs[roomId]>> ELSE <<>>

\* C32: a stroke-start, undo or redo of a connection registered in room A
\* leaves the timeline and the undo stacks of every other room as they were,
\* whatever room the payload names, and an accepted stroke-start is sent to
\* members of A only.
C32_OnlyOwnRoom ==
    [][\A s \in DOMAIN sockets, roomId \in Rooms :
           (/\ s \in DOMAIN users
            /\ \/ OnStrokeStart(s, roomId, Origin)
               \/ OnUndo(s, roomId)
               \/ OnRedo(s, roomId))
               => /\ \A other \in Rooms \ {users[s].roomId} :
                         RoomStateOf(roomStates', other)
                             = RoomStateOf(roomStates, other)
                  /\ last'.op = "stroke-start"
                         => \A i \in 1..Len(emitted') :
                                emitted'[i].to \subseteq Members(users[s].roomId)
      ]_vars

\* The user of connection s owns stored stroke id.
Owns(s, id) ==
    /\ s \in DOMAIN users
    /\ \E r \in Rooms : \E stroke \in StrokeObjects(roomStates, r) :
           stroke.id = id /\ stroke.userId = users[s].userId

\* C33: only the connection whose user owns a stroke appends points to it:
\* a stroke-update from any other connection (another member, or one that
\* never joined) leaves the stroke's point sequence as it was.
C33_OnlyOwnerAppends ==
    [][\A s \in DOMAIN sockets, roomId \in Rooms, strokeId \in StrokeIds :
           (OnStrokeUpdate(s, roomId, strokeId, Origin) /\ ~Owns(s, strokeId))
               => \A r \in Rooms :
                      \A before \in StrokeObjects(roomStates, r) :
                          \A after \in StrokeObjects(roomStates', r) :
                              (before.id = strokeId /\ after.id = strokeId)
                                  => after.path = before.path
      ]_vars

\* The colors the users registered in room roomId hold.
ColorsHeld(roomId) ==
    {users[s].color : s \in {t \in DOMAIN users : users[t].roomId = roomId}}

\* The colors marked as used in room roomId (none when the room has no pool).
ColorPool(roomId) ==
    IF roomId \in DOMAIN roomColors THEN roomColors[roomId] ELSE {}

\* C34: in every reachable state the color pool of a room is exactly the set
\* of colors its current members hold.
C34_PoolIsColorsHeld ==
    \A roomId \in Rooms : ColorPool(roomId) = ColorsHeld(roomId)

\* The connection ids in the member set of room roomId.
MemberSet(roomId) ==
    {rooms[roomId][i] : i \in 1..Len(rooms[roomId])}

\* C35: the registry is consistent in every reachable state: a connection id
\* is in the member set of at most one room, every id in rooms[R] has a user
\* record whose roomId is R, every user record's connection id is in the
\* member set of its room, and no room has zero members.
C35_RegistryConsistent ==
    /\ \A r1 \in DOMAIN rooms, r2 \in DOMAIN rooms :
           r1 # r2 => MemberSet(r1) \cap MemberSet(r2) = {}
    /\ \A r \in DOMAIN rooms : \A s \in MemberSet(r) :
           s \in DOMAIN users /\ users[s].roomId = r
    /\ \A s \in DOMAIN users :
           users[s].roomId \in DOMAIN rooms /\ s \in MemberSet(users[s].roomId)
    /\ \A r \in DOMAIN rooms : MemberSet(r) # {}

\* C36: no client's stroke list holds two entries with the same durable
\* stroke id.
C36_NoDuplicateIds ==
    \A c \in DOMAIN clients :
        \A i \in 1..Len(clients[c].strokes), j \in 1..Len(clients[c].strokes) :
            (i # j /\ clients[c].strokes[i].id \in minted)
                => clients[c].strokes[i].id # clients[c].strokes[j].id

\* C37: a client that joined while another user's stroke was open holds that
\* stroke in its list, with the server's point sequence, once the stroke is
\* closed and every message is delivered (a stroke of at least 2 points: a
\* shorter one is never kept by a client).
C37_LatecomerHasStroke ==
    (Quiet /\ Joined(Latecomer)) =>
        \A t \in closed :
            LET timeline == Timeline(roomStates, currentRoomId)
                index == FindIndex(timeline, own[t])
                list == clients[Latecomer].strokes
            IN  (index # 0 /\ Len(timeline[index].path) >= 2)
                    => \E i \in 1..Len(list) :
                           /\ list[i].id = own[t]
                           /\ list[i].path = timeline[index].path

\* C38: on a room key the store holds no state for, updateStroke returns
\* false, undo and redo return null and getFullState returns an empty stroke
\* list, and none of them creates state for the room; the only step that
\* adds a room key to the store is a stroke-start (addStroke).
C38_OnlyAddStrokeCreates ==
    [][/\ (\A roomId \in Rooms \ DOMAIN roomStates :
              /\ \A strokeId \in StrokeIds, point \in Points :
                     updateStroke(roomStates, roomId, strokeId, point)
                         = [roomStates |-> roomStates, ret |-> FALSE]
              /\ \A userId \in Users :
                     /\ undo(roomStates, roomId, userId).ret = <<>>
                     /\ undo(roomStates, roomId, userId).roomStates = roomStates
                     /\ redo(roomStates, roomId, userId).ret = <<>>
                     /\ redo(roomStates, roomId, userId).roomStates = roomStates
              /\ getFullState(roomStates, roomId).strokes = <<>>)'
       /\ DOMAIN roomStates' # DOMAIN roomStates => last'.op = "stroke-start"
      ]_vars

\* An undo has just returned null although the only user has a stroke on the
\* timeline of r1: it named r2, which has no state, and still has none.
C38_Witness ==
    /\ last.op = "undo"
    /\ ~last.ok
    /\ "r2" \notin DOMAIN roomStates
    /\ Timeline(roomStates, "r1") # <<>>

\* C39: a stroke in an undo stack cannot be modified: updateStroke naming it
\* returns false and changes nothing, the stroke in the stack is the stroke
\* as it was undone, and a redo returns it with the point sequence it had at
\* the moment of the undo.
C39_UndoneStrokeFrozen ==
    [][/\ (\A i \in 1..Len(undone) :
              LET e == undone[i]
              IN  /\ \A point \in Points :
                         updateStroke(roomStates, e.roomId, e.id, point)
                             = [roomStates |-> roomStates, ret |-> FALSE]
                  /\ \E stroke \in StrokeObjects(roomStates, e.roomId) :
                         stroke = e.stroke)'
       /\ (last'.op = "redo" /\ last'.ok)
              => \E i \in 1..Len(undone) :
                     /\ undone[i].id = last'.strokeId
                     /\ undone[i].stroke.path = last'.ret[1].path
      ]_vars

\* Every stroke minted lies undone and a stroke-update has just returned
\* false: it named an undone stroke.
C39_Witness ==
    /\ last.op = "stroke-update"
    /\ ~last.ok
    /\ UndoneIds(roomStates) = StrokeIds

====
